---------------------------- MODULE Spec2Model ----------------------------
(***************************************************************************)
(* A model of the PlayStation-store search core of custom-psn-api:         *)
(* price parsing, relevance scoring and ranking, the product metadata      *)
(* cache, the exchange-rate cache, getProductInfo and the cross-region     *)
(* matcher.  Strings are TLA+ strings; the character at (1-based) position *)
(* i of s is SubSeq(s, i, i).  JavaScript numbers are modelled exactly, as *)
(* rationals [n |-> numerator, d |-> denominator > 0]; NaN is the record   *)
(* with denominator 0, which no arithmetic of the model produces.          *)
(***************************************************************************)
EXTENDS Integers, Sequences, FiniteSets, TLC

VARIABLES
    pc,             \* which operation of the running specification is at which step
    priceString,    \* parsePrice: its argument
    price,          \* parsePrice: its return value (NaN before the call)
    rankResults,    \* rankSearchResults: its argument results
    rankQuery,      \* rankSearchResults: its argument searchQuery
    ranked,         \* rankSearchResults: its return value (NoRanking before the call)
    now,            \* Date.now(), in milliseconds
    exchangeRateCache,  \* the module's exchange-rate cache: [timestamp, rates]
    rateCall,       \* the calls of getExchangeRates: caller -> [pc, now, response, result]
    productCache,   \* the metadata cache: key -> [v: metadata, t: expiry time]
    metaCall,       \* the calls of fetchProductMetadata: caller -> [pc, arguments, result, ...]
    product1,       \* calculateMatchScore: its first argument
    product2,       \* calculateMatchScore: its second argument
    matchScore,     \* calculateMatchScore: its return value (NaN before the call)
    productData,    \* matchProductsCrossRegion: its argument productData
    regionIndex,    \* matchProductsCrossRegion: the position of its loop in targetRegions
    regionData,     \* matchProductsCrossRegion: the last fetched payload, {} for null
    matches,        \* matchProductsCrossRegion: its result object
    regionFetches,  \* matchProductsCrossRegion: the fetches issued so far, in order
    searchArgs,     \* getProductInfo: its arguments [searchString, region, options]
    searchPage,     \* getProductInfo: the listings of the results page, in page order
    exchangeRates,  \* getProductInfo: the table that getExchangeRates returned to it
    exchangeRate,   \* getProductInfo: its constant exchangeRate
    searchTask,     \* getProductInfo: the per-listing tasks, listing -> [pc, hit, obj]
    resultArr,      \* getProductInfo: its array resultArr
    returnObject,   \* getProductInfo: what it returned
    simArgs,        \* calculateStringSimilarity: its arguments [str1, str2]
    similarity,     \* calculateStringSimilarity: its return value (NaN before the call)
    byIdArgs,       \* getProductByID: its arguments [productId, region]
    byIdPage,       \* getProductByID: what it reads in the product page
    byIdReturn,     \* getProductByID: what it returned
    routeQuery,     \* GET /search: req.query [query, region]
    upstream,       \* GET /search: what the request of fetchSearchResults ended in
    routeError,     \* GET /search: the error that fetchSearchResults threw
    routeResponse,  \* GET /search: the response sent
    keyCall,        \* two calls of fetchProductMetadata in turn: call -> [arguments, ...]
    relevanceArgs,  \* calculateRelevanceScore: its arguments [productName, searchQuery]
    relevanceScore  \* calculateRelevanceScore: its return value (NaN before the call)

priceVars == <<priceString, price>>
rankVars == <<rankResults, rankQuery, ranked>>
rateVars == <<exchangeRateCache, rateCall>>
metaVars == <<productCache, metaCall>>
scoreVars == <<product1, product2, matchScore>>
matchVars == <<productData, regionIndex, regionData, matches, regionFetches>>
searchVars == <<searchArgs, searchPage, exchangeRates, exchangeRate, searchTask, resultArr,
                returnObject>>
simVars == <<simArgs, similarity>>
byIdVars == <<byIdArgs, byIdPage, byIdReturn>>
routeVars == <<routeQuery, upstream, routeError, routeResponse>>
keyVars == <<keyCall>>
relevanceVars == <<relevanceArgs, relevanceScore>>
vars == <<pc, priceVars, rankVars, now, rateVars, metaVars, scoreVars, matchVars, searchVars,
    simVars, byIdVars, routeVars, keyVars, relevanceVars>>

\* what the actions of one part of the program leave unchanged
notPrice == <<rankVars, now, rateVars, metaVars, scoreVars, matchVars, searchVars,
    simVars, byIdVars, routeVars, keyVars, relevanceVars>>
notRank == <<priceVars, now, rateVars, metaVars, scoreVars, matchVars, searchVars,
    simVars, byIdVars, routeVars, keyVars, relevanceVars>>
notRates == <<priceVars, rankVars, metaVars, scoreVars, matchVars, searchVars, simVars,
    byIdVars, routeVars, keyVars, relevanceVars>>
notMeta == <<priceVars, rankVars, rateVars, scoreVars, matchVars, searchVars, simVars,
    byIdVars, routeVars, keyVars, relevanceVars>>
notScore == <<priceVars, rankVars, now, rateVars, metaVars, matchVars, searchVars,
    simVars, byIdVars, routeVars, keyVars, relevanceVars>>
notMatch == <<priceVars, rankVars, now, rateVars, metaVars, scoreVars, searchVars,
    simVars, byIdVars, routeVars, keyVars, relevanceVars>>
notSim == <<priceVars, rankVars, now, rateVars, metaVars, scoreVars, matchVars, searchVars,
    byIdVars, routeVars, keyVars, relevanceVars>>
notRoute == <<priceVars, rankVars, now, rateVars, metaVars, scoreVars, matchVars, searchVars,
    simVars, byIdVars, keyVars, relevanceVars>>
notKeys == <<priceVars, rankVars, now, rateVars, metaCall, scoreVars, matchVars, searchVars,
    simVars, byIdVars, routeVars, relevanceVars>>
notRelevance == <<priceVars, rankVars, now, rateVars, metaVars, scoreVars, matchVars,
    searchVars, simVars, byIdVars, routeVars, keyVars>>
\* getProductByID works on the clock and on both caches
notById == <<priceVars, rankVars, rateCall, metaCall, scoreVars, matchVars, searchVars,
    simVars, routeVars, keyVars, relevanceVars>>
\* getProductInfo calls parsePrice and rankSearchResults as functions, and works on
\* the clock and on both caches
notSearch == <<priceVars, rankVars, rateCall, metaCall, scoreVars, matchVars, simVars,
    byIdVars, routeVars, keyVars, relevanceVars>>

NaN == [n |-> 0, d |-> 0]
NoRanking == [all |-> <<>>, baseGames |-> <<>>, dlcAddons |-> <<>>]

----------------------------------------------------------------------------
(* Numbers *)

Rat(n, d) == [n |-> n, d |-> d]
RatInt(i) == Rat(i, 1)
IsNaN(x) == x.d = 0
RECURSIVE Gcd(_, _)
Gcd(a, b) == IF b = 0 THEN a ELSE Gcd(b, a % b)
Abs(i) == IF i < 0 THEN -i ELSE i
\* a rational in lowest terms
Norm(a) == LET g == Gcd(Abs(a.n), a.d) IN IF g = 0 THEN a ELSE Rat(a.n \div g, a.d \div g)
RatEq(a, b) == Norm(a) = Norm(b)
RatLt(a, b) == a.n * b.d < b.n * a.d
RatLe(a, b) == a.n * b.d <= b.n * a.d
RatAdd(a, b) == Rat(a.n * b.d + b.n * a.d, a.d * b.d)

RECURSIVE Pow10(_)
Pow10(k) == IF k = 0 THEN 1 ELSE 10 * Pow10(k - 1)

----------------------------------------------------------------------------
(* Strings *)

CharAt(s, i) == SubSeq(s, i, i)
Digits == {"0", "1", "2", "3", "4", "5", "6", "7", "8", "9"}
DigitSeq == <<"0", "1", "2", "3", "4", "5", "6", "7", "8", "9">>
DigitValue(c) == (CHOOSE i \in 1..10 : DigitSeq[i] = c) - 1
WhiteSpace == {" ", "\t", "\n"}

\* s with only its characters of the set keep left, in order
RECURSIVE Filter(_, _)
Filter(s, keep) ==
    IF s = "" THEN ""
    ELSE (IF CharAt(s, 1) \in keep THEN CharAt(s, 1) ELSE "") \o Filter(Tail(s), keep)

\* String.prototype.lastIndexOf for a one-character needle: 0-based, -1 when absent
RECURSIVE LastIndexOf(_, _)
LastIndexOf(s, c) ==
    IF s = "" THEN -1
    ELSE IF CharAt(s, Len(s)) = c THEN Len(s) - 1
    ELSE LastIndexOf(SubSeq(s, 1, Len(s) - 1), c)

\* String.prototype.indexOf for a one-character needle: 0-based, -1 when absent
IndexOf(s, c) ==
    IF \E i \in 1..Len(s) : CharAt(s, i) = c
    THEN (CHOOSE i \in 1..Len(s) : CharAt(s, i) = c /\ \A j \in 1..(i - 1) : CharAt(s, j) # c) - 1
    ELSE -1

\* s.replace(/c/g, '') for a one-character c
RemoveAll(s, c) == Filter(s, {CharAt(s, i) : i \in 1..Len(s)} \ {c})

\* s.replace(c, r) with a string pattern: only the first occurrence is replaced
ReplaceFirst(s, c, r) ==
    LET i == IndexOf(s, c)
    IN IF i = -1 THEN s ELSE SubSeq(s, 1, i) \o r \o SubSeq(s, i + 2, Len(s))

\* s.substring(i) with a 0-based start
Substring(s, i) == SubSeq(s, i + 1, Len(s))

\* the length of the longest run of decimal digits of s that starts at (1-based) i
RECURSIVE DigitRun(_, _)
DigitRun(s, i) ==
    IF i <= Len(s) /\ CharAt(s, i) \in Digits THEN 1 + DigitRun(s, i + 1) ELSE 0

\* the value of a string of decimal digits ("" is 0)
RECURSIVE DigitsValue(_)
DigitsValue(s) ==
    IF s = "" THEN 0
    ELSE 10 * DigitsValue(SubSeq(s, 1, Len(s) - 1)) + DigitValue(CharAt(s, Len(s)))

\* the number of leading white-space characters of s
RECURSIVE LeadingSpace(_)
LeadingSpace(s) ==
    IF s # "" /\ CharAt(s, 1) \in WhiteSpace THEN 1 + LeadingSpace(Tail(s)) ELSE 0

(***************************************************************************)
(* The global parseFloat: leading white space is skipped, then the longest *)
(* prefix of the form [+-] digits [. digits] or [+-] . digits is read; NaN *)
(* when there is no such prefix.  Exponents and "Infinity" are left out:   *)
(* no input of the model holds the letter e or I after the sign.           *)
(***************************************************************************)
ParseFloat(str) ==
    LET s     == Substring(str, LeadingSpace(str))
        neg   == s # "" /\ CharAt(s, 1) = "-"
        sgn   == IF s # "" /\ CharAt(s, 1) \in {"-", "+"} THEN 1 ELSE 0
        nInt  == DigitRun(s, sgn + 1)
        dot   == sgn + nInt + 1 <= Len(s) /\ CharAt(s, sgn + nInt + 1) = "."
        nFrac == IF dot THEN DigitRun(s, sgn + nInt + 2) ELSE 0
        int   == DigitsValue(SubSeq(s, sgn + 1, sgn + nInt))
        frac  == DigitsValue(SubSeq(s, sgn + nInt + 2, sgn + nInt + 1 + nFrac))
        mag   == int * Pow10(nFrac) + frac
    IN IF nInt = 0 /\ nFrac = 0 THEN NaN
       ELSE Rat(IF neg THEN -mag ELSE mag, Pow10(nFrac))

----------------------------------------------------------------------------
(* parsePrice *)

PriceChars == Digits \cup {",", "."}

MutParsePriceDecimals(priceString_) ==
    LET cleaned0 == Filter(priceString_, PriceChars)
        lastCommaIndex == LastIndexOf(cleaned0, ",")
        lastDotIndex == LastIndexOf(cleaned0, ".")
        cleaned ==
            IF lastCommaIndex > lastDotIndex
            THEN IF Len(Substring(cleaned0, lastCommaIndex + 1)) < 2
                 THEN ReplaceFirst(RemoveAll(cleaned0, "."), ",", ".")
                 ELSE RemoveAll(cleaned0, ",")
            ELSE IF lastDotIndex > lastCommaIndex
            THEN RemoveAll(cleaned0, ",")
            ELSE RemoveAll(RemoveAll(cleaned0, ","), ".")
        parsed == ParseFloat(cleaned)
    IN IF IsNaN(parsed) \/ parsed.n = 0 THEN RatInt(0) ELSE parsed

parsePrice(priceString_) ==
    LET cleaned0 == Filter(priceString_, PriceChars)
        lastCommaIndex == LastIndexOf(cleaned0, ",")
        lastDotIndex == LastIndexOf(cleaned0, ".")
        cleaned ==
            IF lastCommaIndex > lastDotIndex
            THEN LET afterComma == Substring(cleaned0, lastCommaIndex + 1)
                 IN IF Len(afterComma) <= 2
                    THEN ReplaceFirst(RemoveAll(cleaned0, "."), ",", ".")
                    ELSE RemoveAll(cleaned0, ",")
            ELSE IF lastDotIndex > lastCommaIndex
            THEN LET afterDot == Substring(cleaned0, lastDotIndex + 1)
                 IN IF Len(afterDot) <= 2
                    THEN RemoveAll(cleaned0, ",")
                    ELSE RemoveAll(cleaned0, ",")
            ELSE RemoveAll(RemoveAll(cleaned0, ","), ".")
        parsed == ParseFloat(cleaned)
    \* parseFloat(cleaned) || 0: NaN and 0 are the falsy numbers
    IN IF IsNaN(parsed) \/ parsed.n = 0 THEN RatInt(0) ELSE parsed

----------------------------------------------------------------------------
(* calculateRelevanceScore and rankSearchResults *)

UpperAlpha == "ABCDEFGHIJKLMNOPQRSTUVWXYZ"
LowerAlpha == "abcdefghijklmnopqrstuvwxyz"
Letters == {CharAt(LowerAlpha, i) : i \in 1..26} \cup {CharAt(UpperAlpha, i) : i \in 1..26}
WordChars == Letters \cup Digits \cup {"_"}

UpperLetters == {CharAt(UpperAlpha, i) : i \in 1..26}
LowerOf ==
    [c \in UpperLetters |-> CharAt(LowerAlpha, CHOOSE i \in 1..26 : CharAt(UpperAlpha, i) = c)]
ToLowerChar(c) == IF c \in UpperLetters THEN LowerOf[c] ELSE c

RECURSIVE ToLowerCase(_)
ToLowerCase(s) ==
    IF Len(s) = 0 THEN ""
    ELSE IF Len(s) = 1 THEN ToLowerChar(s)
    ELSE LET half == Len(s) \div 2
         IN ToLowerCase(SubSeq(s, 1, half)) \o ToLowerCase(SubSeq(s, half + 1, Len(s)))

\* sub occurs in s at (1-based) position i
MatchAt(s, sub, i) == i >= 1 /\ i + Len(sub) - 1 <= Len(s) /\ SubSeq(s, i, i + Len(sub) - 1) = sub
Includes(s, sub) == \E i \in 1..(Len(s) - Len(sub) + 1) : MatchAt(s, sub, i)
StartsWith(s, sub) == MatchAt(s, sub, 1)

\* the regular expression assertion \b before the character at position i
IsWordAt(s, i) == i >= 1 /\ i <= Len(s) /\ CharAt(s, i) \in WordChars
WordBoundary(s, i) == IsWordAt(s, i - 1) # IsWordAt(s, i)
AllDigits(s, i, j) == \A k \in i..j : k <= Len(s) /\ CharAt(s, k) \in Digits

\* s.split(/\s+/)
RECURSIVE SplitSpace(_)
SplitSpace(s) ==
    IF \A i \in 1..Len(s) : CharAt(s, i) \notin WhiteSpace THEN <<s>>
    ELSE LET i == CHOOSE k \in 1..Len(s) :
                      CharAt(s, k) \in WhiteSpace /\ \A j \in 1..(k - 1) : CharAt(s, j) \notin WhiteSpace
             rest == Substring(s, i)
         IN <<SubSeq(s, 1, i - 1)>> \o SplitSpace(Substring(rest, LeadingSpace(rest)))

dlcIndicators ==
    <<"dlc", "add-on", "addon", "pack", "bundle", "expansion",
      "season pass", "content pack", "digital deluxe", "upgrade",
      "edition upgrade", "cosmetic", "soundtrack", "art book",
      "bonus content", "pre-order", "exclusive", "digital bonus",
      "item pack", "weapon pack", "skin", "character pack">>

editionIndicators ==
    <<"deluxe edition", "premium edition", "ultimate edition",
      "gold edition", "complete edition", "collector's edition",
      "limited edition", "special edition", "goty">>

gameWords == {"game", "the game", "complete game", "full game"}

RECURSIVE FirstHitPenalty(_, _, _, _)
\* the loop over indicators without its break: the penalty at every hit
MutPenaltyEveryHit(nameLower, indicators, i, penalty) ==
    penalty * Cardinality({k \in i..Len(indicators) : Includes(nameLower, indicators[k])})

\* the score after the loop over indicators: penalty is applied at the first hit, then break
FirstHitPenalty(nameLower, indicators, i, penalty) ==
    IF i > Len(indicators) THEN 0
    ELSE IF Includes(nameLower, indicators[i]) THEN penalty
    ELSE FirstHitPenalty(nameLower, indicators, i + 1, penalty)

\* the share of the query's words rounded to a whole number, as Math.round would
MutBaseRounded(nameLower, queryLower) ==
    IF nameLower = queryLower THEN RatInt(100)
    ELSE IF Includes(nameLower, queryLower) THEN RatInt(50)
    ELSE LET queryWords == SplitSpace(queryLower)
             matchedWords == {i \in 1..Len(queryWords) : Includes(nameLower, queryWords[i])}
         IN RatInt((2 * Cardinality(matchedWords) * 30 + Len(queryWords))
                       \div (2 * Len(queryWords)))

\* the base score: exact match, containment, or the share of the query's words found
BaseMatchScore(nameLower, queryLower) ==
    IF nameLower = queryLower THEN RatInt(100)
    ELSE IF Includes(nameLower, queryLower) THEN RatInt(50)
    ELSE LET queryWords == SplitSpace(queryLower)
             matchedWords == {i \in 1..Len(queryWords) : Includes(nameLower, queryWords[i])}
         IN Rat(Cardinality(matchedWords) * 30, Len(queryWords))

\* nameLower.match(/\b(game|the game|complete game|full game)\b/)
HasGameWord(nameLower) ==
    \E w \in gameWords : \E i \in 1..Len(nameLower) :
        MatchAt(nameLower, w, i) /\ WordBoundary(nameLower, i) /\ WordBoundary(nameLower, i + Len(w))

\* a year of two digits in parentheses only
MutYearTwoDigits(nameLower) ==
    \E i \in 1..Len(nameLower) :
        MatchAt(nameLower, "(", i) /\ AllDigits(nameLower, i + 1, i + 2) /\ MatchAt(nameLower, ")", i + 3)

\* nameLower.match(/\(\d{4}\)/) || nameLower.match(/\b20\d{2}\b/)
HasYearIndicator(nameLower) ==
    \/ \E i \in 1..Len(nameLower) :
          MatchAt(nameLower, "(", i) /\ AllDigits(nameLower, i + 1, i + 4) /\ MatchAt(nameLower, ")", i + 5)
    \/ \E i \in 1..Len(nameLower) :
          /\ MatchAt(nameLower, "20", i) /\ AllDigits(nameLower, i + 2, i + 3)
          /\ WordBoundary(nameLower, i) /\ WordBoundary(nameLower, i + 4)

\* the terms calculateRelevanceScore adds up, in the order it adds them
ScoreTerms(productName, searchQuery) ==
    LET nameLower == ToLowerCase(productName)
        queryLower == ToLowerCase(searchQuery)
    IN [base       |-> BaseMatchScore(nameLower, queryLower),
        dlc        |-> FirstHitPenalty(nameLower, dlcIndicators, 1, -40),
        edition    |-> FirstHitPenalty(nameLower, editionIndicators, 1, -20),
        game       |-> IF HasGameWord(nameLower) THEN 15 ELSE 0,
        short      |-> IF Len(productName) < 30 THEN 10 ELSE 0,
        startsWith |-> IF StartsWith(nameLower, queryLower) THEN 25 ELSE 0,
        year       |-> IF HasYearIndicator(nameLower) THEN 15 ELSE 0]

\* "" stands for a missing (null, undefined or empty) name or query
calculateRelevanceScore(productName, searchQuery) ==
    IF productName = "" \/ searchQuery = "" THEN RatInt(0)
    ELSE LET t == ScoreTerms(productName, searchQuery)
         IN RatAdd(t.base, RatInt(t.dlc + t.edition + t.game + t.short + t.startsWith + t.year))

BaseGameThreshold == 20

\* { ...r, [field]: value }
WithField(r, field, value) ==
    [f \in DOMAIN r \cup {field} |-> IF f = field THEN value ELSE r[f]]

\* scored.sort((a, b) => b.relevanceScore - a.relevanceScore): Array.prototype.sort
\* is stable, so an element goes after every element that does not score less
RECURSIVE InsertByScore(_, _)
InsertByScore(sorted, x) ==
    IF sorted = <<>> THEN <<x>>
    ELSE IF RatLt(Head(sorted).relevanceScore, x.relevanceScore) THEN <<x>> \o sorted
    ELSE <<Head(sorted)>> \o InsertByScore(Tail(sorted), x)

RECURSIVE SortFrom(_, _, _)
SortFrom(scored, i, sorted) ==
    IF i > Len(scored) THEN sorted ELSE SortFrom(scored, i + 1, InsertByScore(sorted, scored[i]))

MutSortAscending(scored) ==
    LET RECURSIVE Ins(_, _)
        Ins(sorted, x) ==
            IF sorted = <<>> THEN <<x>>
            ELSE IF RatLt(x.relevanceScore, Head(sorted).relevanceScore) THEN <<x>> \o sorted
            ELSE <<Head(sorted)>> \o Ins(Tail(sorted), x)
        RECURSIVE From(_, _)
        From(i, sorted) == IF i > Len(scored) THEN sorted ELSE From(i + 1, Ins(sorted, scored[i]))
    IN From(1, <<>>)

SortByScore(scored) == SortFrom(scored, 1, <<>>)

IsBaseGame(r) == RatLe(RatInt(BaseGameThreshold), r.relevanceScore)

rankSearchResults(results, searchQuery) ==
    LET scored == [i \in 1..Len(results) |->
                      WithField(results[i], "relevanceScore",
                                calculateRelevanceScore(results[i].name, searchQuery))]
        sorted == SortByScore(scored)
    IN [all |-> sorted,
        baseGames |-> SelectSeq(sorted, IsBaseGame),
        dlcAddons |-> SelectSeq(sorted, LAMBDA r : ~IsBaseGame(r))]

----------------------------------------------------------------------------
(* getExchangeRates *)

CACHE_DURATION == 3600000
RateCodes == {"JPY", "TRY", "INR", "EUR"}
NoRates == [c \in {} |-> NaN]

fallbackRates ==
    [c \in RateCodes |->
        CASE c = "JPY" -> Rat(623, 100000)
          [] c = "TRY" -> Rat(3105, 100000)
          [] c = "INR" -> Rat(950, 100000)
          [] OTHER     -> RatInt(1)]

\* 1 / x; x is undefined when the payload has no rate of that name, and 1 / undefined is NaN
Inverse(euRates, c) ==
    IF c \in DOMAIN euRates THEN Rat(euRates[c].d, euRates[c].n) ELSE NaN

\* the table built from the payload's rates, which are relative to EUR
RefreshedRates(euRates) ==
    [c \in RateCodes |-> IF c = "EUR" THEN RatInt(1) ELSE Inverse(euRates, c)]

\* the test without the age of the table
MutUsableWhenNonEmpty(cache, callNow) == DOMAIN cache.rates # {}

\* the test that lets getExchangeRates answer from the cache
CacheUsable(cache, callNow) ==
    callNow - cache.timestamp < CACHE_DURATION /\ DOMAIN cache.rates # {}

\* the catch branch without its test for an empty cache
MutReturnCacheAlways(cache) == cache.rates

\* the catch branch: the last cached rates if there are any, the hardcoded table otherwise
FailedRefreshResult(cache) ==
    IF DOMAIN cache.rates # {} THEN cache.rates ELSE fallbackRates

\* what the request to the rate service may end in: an error (network, timeout, HTTP
\* status), a payload without a rates object, or a payload with rates
RateResponses ==
    {[kind |-> "error", rates |-> NoRates], [kind |-> "malformed", rates |-> NoRates]}
    \cup {[kind |-> "ok", rates |-> r] :
             r \in {[JPY |-> RatInt(160), TRY |-> RatInt(32), INR |-> RatInt(105), USD |-> Rat(11, 10)],
                    [JPY |-> RatInt(160), TRY |-> RatInt(32)]}}

\* a payload without a rates object taken for a success
MutMalformedSucceeds(response) == response.kind = "error"

\* reading euRates.JPY throws when the payload has no rates object
RefreshFails(response) == response.kind \in {"error", "malformed"}

NoResponse == [kind |-> "none", rates |-> NoRates]

----------------------------------------------------------------------------
(* The metadata cache and fetchProductMetadata *)

stdTTL == 86400
TtlMs == stdTTL * 1000

regionMap ==
    [r \in {"JP", "TR", "IN", "BE"} |->
        CASE r = "JP" -> "ja-jp" [] r = "TR" -> "tr-tr" [] r = "IN" -> "en-in" [] OTHER -> "en-be"]

\* a key without the locale
MutKeyWithoutLocale(productId, localeCode) == productId \o "_"

cacheKey(productId, localeCode) == productId \o "_" \o localeCode

EmptyCache == [k \in {} |-> [v |-> "", t |-> 0]]

\* node-cache: an entry is kept with its expiry time t = (time of set) + TTL, and
\* get() takes it for expired, and deletes it, when t < Date.now()
CacheLive(cache, key, time) == key \in DOMAIN cache /\ ~(cache[key].t < time)
CacheAfterGet(cache, key, time) ==
    IF key \in DOMAIN cache /\ ~CacheLive(cache, key, time)
    THEN [k \in DOMAIN cache \ {key} |-> cache[k]]
    ELSE cache
CacheSet(cache, key, value, time) ==
    [k \in DOMAIN cache \cup {key} |->
        IF k = key THEN [v |-> value, t |-> time + TtlMs] ELSE cache[k]]
\* the time at which the entry of key was set
InsertedAt(cache, key) == cache[key].t - TtlMs

\* a lookup that never finds the entry
MutNeverHit(cache, key, time) == FALSE

\* const cached = productCache.get(cacheKey); if (cached): a stored metadata object is truthy
CachedMetadataHit(cache, key, time) == CacheLive(cache, key, time)

\* what the request to the product API may end in: an error (network, timeout, HTTP
\* status), a payload without productFromSKU, or a product, with or without images
MetadataResponses ==
    {[kind |-> "error", imageUrl |-> ""], [kind |-> "noProduct", imageUrl |-> ""],
     [kind |-> "ok", imageUrl |-> ""], [kind |-> "ok", imageUrl |-> "/img/128/cover.png"]}

NoMetadata == [id |-> "", imageUrl |-> "", fetched |-> 0]

\* the metadata object built from the payload ("" stands for an undefined imageUrl)
Metadata(productId, response, time) ==
    [id |-> productId, imageUrl |-> response.imageUrl, fetched |-> time]

----------------------------------------------------------------------------
(* The cross-region matcher: calculateMatchScore and string similarity *)

\* arithmetic on numbers that may be NaN
NumAdd(a, b) == IF IsNaN(a) \/ IsNaN(b) THEN NaN ELSE Norm(RatAdd(a, b))
NumSub(a, b) == IF IsNaN(a) \/ IsNaN(b) THEN NaN ELSE Norm(Rat(a.n * b.d - b.n * a.d, a.d * b.d))
NumMul(a, b) == IF IsNaN(a) \/ IsNaN(b) THEN NaN ELSE Norm(Rat(a.n * b.n, a.d * b.d))
NumGe(a, b) == ~IsNaN(a) /\ ~IsNaN(b) /\ RatLe(b, a)
NumAbs(a) == Rat(Abs(a.n), a.d)
\* Math.max(a, b): NaN when either is
NumMax(a, b) == IF IsNaN(a) \/ IsNaN(b) THEN NaN ELSE IF RatLt(a, b) THEN b ELSE a
Min3(a, b, c) == IF a <= b /\ a <= c THEN a ELSE IF b <= c THEN b ELSE c
Max2(a, b) == IF a >= b THEN a ELSE b

\* row i of the matrix from row i - 1 (prev), for the character c2 of str2; row holds
\* the columns 0 .. j - 1 that are filled so far (a sequence is indexed from 1)
RECURSIVE LevenshteinRow(_, _, _, _, _)
LevenshteinRow(str1, c2, prev, j, row) ==
    IF j > Len(str1) THEN row
    ELSE LET cell == IF c2 = CharAt(str1, j) THEN prev[j]
                     ELSE Min3(prev[j] + 1, row[j] + 1, prev[j + 1] + 1)
         IN LevenshteinRow(str1, c2, prev, j + 1, Append(row, cell))

RECURSIVE LevenshteinRows(_, _, _, _)
LevenshteinRows(str1, str2, i, prev) ==
    IF i > Len(str2) THEN prev
    ELSE LevenshteinRows(str1, str2, i + 1,
                         LevenshteinRow(str1, CharAt(str2, i), prev, 1, <<i>>))

levenshteinDistance(str1, str2) ==
    LevenshteinRows(str1, str2, 1, [j \in 1..(Len(str1) + 1) |-> j - 1])[Len(str1) + 1]

\* the similarity with the length of str1 in the place of maxLength
MutSimilarityByFirstLength(str1, str2) ==
    IF Max2(Len(str1), Len(str2)) = 0 THEN RatInt(1)
    ELSE IF Len(str1) = 0 THEN NaN
    ELSE Norm(Rat(Len(str1) - levenshteinDistance(str1, str2), Len(str1)))

calculateStringSimilarity(str1, str2) ==
    LET maxLength == Max2(Len(str1), Len(str2))
    IN IF maxLength = 0 THEN RatInt(1)
       ELSE Norm(Rat(maxLength - levenshteinDistance(str1, str2), maxLength))

\* Math.max(0, 1 - priceDiff * 2) with priceDiff = |price1 - price2| / Math.max(price1, price2);
\* 0 / 0 is NaN, and x / 0 is Infinity for x > 0, which gives Math.max(0, -Infinity) = 0
PriceSimilarity(price1, price2) ==
    LET diff == NumAbs(NumSub(price1, price2))
        max  == NumMax(price1, price2)
    IN IF max.n = 0 THEN (IF diff.n = 0 THEN NaN ELSE RatInt(0))
       ELSE NumMax(RatInt(0),
                   NumSub(RatInt(1), NumMul(Norm(Rat(diff.n * max.d * (IF max.n < 0 THEN -1 ELSE 1),
                                                     diff.d * Abs(max.n))),
                                            RatInt(2))))

TitleWeight == Rat(40, 100)
PriceWeight == Rat(30, 100)
IdWeight == Rat(30, 100)

\* the criteria calculateMatchScore includes for a pair: "" stands for a missing title,
\* price or productId.raw (undefined, null and "" are all falsy)
TitleIncluded(p1, p2) == p1.title # "" /\ p2.title # ""
PriceIncluded(p1, p2) ==
    /\ p1.price # "" /\ p2.price # ""
    /\ ~IsNaN(ParseFloat(p1.price)) /\ ~IsNaN(ParseFloat(p2.price))
IdIncluded(p1, p2) == p1.productId # "" /\ p2.productId # ""

\* return criteria > 0 ? score / criteria : 0
FinalScore(score, criteria) ==
    IF criteria > 0 THEN NumMul(score, Rat(1, criteria)) ELSE RatInt(0)

calculateMatchScore(p1, p2) ==
    LET titleTerm ==
            IF TitleIncluded(p1, p2)
            THEN NumMul(calculateStringSimilarity(ToLowerCase(p1.title), ToLowerCase(p2.title)),
                        TitleWeight)
            ELSE RatInt(0)
        priceTerm ==
            IF PriceIncluded(p1, p2)
            THEN NumMul(PriceSimilarity(ParseFloat(p1.price), ParseFloat(p2.price)), PriceWeight)
            ELSE RatInt(0)
        idTerm ==
            IF IdIncluded(p1, p2)
            THEN NumMul(IF p1.productId = p2.productId THEN RatInt(1)
                        ELSE calculateStringSimilarity(p1.productId, p2.productId),
                        IdWeight)
            ELSE RatInt(0)
        criteria == (IF TitleIncluded(p1, p2) THEN 1 ELSE 0)
                    + (IF PriceIncluded(p1, p2) THEN 1 ELSE 0)
                    + (IF IdIncluded(p1, p2) THEN 1 ELSE 0)
    IN FinalScore(NumAdd(NumAdd(titleTerm, priceTerm), idTerm), criteria)

----------------------------------------------------------------------------
(* matchProductsCrossRegion *)

targetRegions == <<"us", "eu", "jp">>

ExactThreshold == Rat(95, 100)
LikelyThreshold == Rat(80, 100)
PotentialThreshold == Rat(60, 100)

\* the chain without its second branch
MutBucketNoLikely(score) ==
    IF NumGe(score, ExactThreshold) THEN "exact"
    ELSE IF NumGe(score, PotentialThreshold) THEN "potential"
    ELSE "none"

\* the if / else-if chain on matchScore; a comparison with NaN is false
Bucket(score) ==
    IF NumGe(score, ExactThreshold) THEN "exact"
    ELSE IF NumGe(score, LikelyThreshold) THEN "likely"
    ELSE IF NumGe(score, PotentialThreshold) THEN "potential"
    ELSE "none"

\* REGION_CONFIG[region].name, and that of us for a region without a configuration
RegionName(region) ==
    CASE region = "us" -> "United States"
      [] region = "eu" -> "Europe"
      [] region = "jp" -> "Japan"
      [] OTHER         -> "United States"

\* the region field of the object that extractProductData(element, region) returns:
\* region: config.name
ExtractedRegion(region) == RegionName(region)

\* what the request of fetchProductFromRegion can end in without a payload: fetch
\* rejects, response.ok is false, response.json() rejects
FetchFailures == {"rejected", "notOk", "badJson"}

\* without the try / catch of fetchProductFromRegion
MutFetchRethrows(response) ==
    IF response.kind = "ok" THEN [kind |-> "returned", value |-> {response.data}]
    ELSE [kind |-> "thrown", value |-> {}]

\* what the call of fetchProductFromRegion ends in: the payload of the response, or
\* null ({}) when anything in the try block threw
fetchProductFromRegion(response) ==
    IF response.kind = "ok" THEN [kind |-> "returned", value |-> {response.data}]
    ELSE [kind |-> "returned", value |-> {}]

\* the record of a fetch in regionFetches: its region, whether its await is still
\* pending, and the regionData that the await gave (null is {})
Fetch(region, pending, data) == [region |-> region, pending |-> pending, data |-> data]
\* regionFetches with its last fetch settled with regionData
Settled(fetches, data) ==
    [fetches EXCEPT ![Len(fetches)] = Fetch(@.region, FALSE, data)]

MatchEntry(region, data, score) == [region |-> region, data |-> data, confidence |-> score]

\* matches after the candidate data of the region is scored
PushMatch(m, region, data) ==
    LET score == calculateMatchScore(productData, data)
        entry == MatchEntry(region, data, score)
    IN CASE Bucket(score) = "exact" -> [m EXCEPT !.exact = Append(@, entry)]
         [] Bucket(score) = "likely" -> [m EXCEPT !.likely = Append(@, entry)]
         [] Bucket(score) = "potential" -> [m EXCEPT !.potential = Append(@, entry)]
         [] OTHER -> m

\* matches.exact.length === 0 && matches.likely.length === 0 && matches.potential.length === 0
NoMatchFlag(m) == Len(m.exact) = 0 /\ Len(m.likely) = 0 /\ Len(m.potential) = 0

----------------------------------------------------------------------------
(* getProductInfo *)

currencyInfo ==
    [r \in {"JP", "TR", "IN", "BE"} |->
        CASE r = "JP" -> [symbol |-> "¥", name |-> "JPY"]
          [] r = "TR" -> [symbol |-> "₺", name |-> "TRY"]
          [] r = "IN" -> [symbol |-> "₹", name |-> "INR"]
          [] OTHER    -> [symbol |-> "€", name |-> "EUR"]]

\* a region that is not a string: the array that a repeated query parameter makes
\* (routes/search.js hands req.query.region || 'BE' to the handler)
RegionList == "BE,JP"
\* region.toUpperCase() is a function call only on a string
IsString(region) == region # RegionList

\* regionMap[region.toUpperCase()] || 'en-be', for a region in capitals
LocaleOf(region) == IF region \in DOMAIN regionMap THEN regionMap[region] ELSE "en-be"
\* currencyInfo[region.toUpperCase()] || currencyInfo['BE']
CurrencyOf(region) ==
    IF region \in DOMAIN currencyInfo THEN currencyInfo[region] ELSE currencyInfo["BE"]

\* options.filterDLC !== false, options.sortByRelevance !== false
OptionOn(value) == value # "false"

\* the lookup without its default for a rate that is NaN
MutExchangeRateNoDefault(rates, code) ==
    IF code \in DOMAIN rates THEN rates[code] ELSE RatInt(1)

\* exchangeRates[currencyCode] || 1.0: undefined, NaN and 0 are falsy
ExchangeRateOf(rates, code) ==
    IF code \in DOMAIN rates /\ ~IsNaN(rates[code]) /\ rates[code].n # 0
    THEN rates[code] ELSE RatInt(1)

\* href.match(/\/product\/([^/]+)$/): the last path segment when it follows /product/,
\* "" for null
extractProductId(href) ==
    LET slash == LastIndexOf(href, "/")
        marker == "/product"
    IN IF slash >= Len(marker) /\ slash + 1 < Len(href)
          /\ SubSeq(href, slash - Len(marker) + 1, slash) = marker
       THEN Substring(href, slash + 1)
       ELSE ""

\* s.replace(sub, r) with a string or a regular expression without the g flag
ReplaceFirstSub(s, sub, r) ==
    IF Includes(s, sub)
    THEN LET i == CHOOSE i \in 1..Len(s) :
                      MatchAt(s, sub, i) /\ \A j \in 1..(i - 1) : ~MatchAt(s, sub, j)
         IN SubSeq(s, 1, i - 1) \o r \o SubSeq(s, i + Len(sub), Len(s))
    ELSE s

\* the image URLs of the model hold no WxH path segment and no size= parameter, which
\* leaves the three replacements of a path segment
upgradeImageUrl(imageUrl) ==
    ReplaceFirstSub(ReplaceFirstSub(ReplaceFirstSub(imageUrl, "/128/", "/512/"),
                                    "/160/", "/512/"),
                    "/200/", "/512/")

\* productPrice.replace(/\$/g, '€')
RECURSIVE DollarsToEuros(_)
DollarsToEuros(str) ==
    IF str = "" THEN ""
    ELSE (IF CharAt(str, 1) = "$" THEN "€" ELSE CharAt(str, 1)) \o DollarsToEuros(Tail(str))

\* a listing of the page: what the extract functions find in its element ("" for
\* null), and whether one of them throws
ListingPrice(listing, region) ==
    IF region = "BE" THEN DollarsToEuros(listing.price) ELSE listing.price

\* the test without the price
MutKeptWithoutPrice(listing) == ~listing.broken /\ listing.name # ""

\* if (productName && productPrice)
ListingKept(listing) == ~listing.broken /\ listing.name # "" /\ listing.price # ""

\* productObj as it is built before the enrichment
PricedObj(listing, index, region, rate, productPrice, rawPrice) ==
    [index |-> index,
     name |-> listing.name,
     price |-> productPrice,
     rawPrice |-> rawPrice,
     priceInEur |-> NumMul(rawPrice, rate),
     currency |-> CurrencyOf(region).symbol,
     currencyCode |-> CurrencyOf(region).name,
     exchangeRate |-> rate,
     imageUrl |-> upgradeImageUrl(listing.imageUrl),
     region |-> region,
     productId |-> extractProductId(listing.href),
     enriched |-> FALSE]

ProductObj(listing, index, region, rate) ==
    PricedObj(listing, index, region, rate, ListingPrice(listing, region),
              parsePrice(ListingPrice(listing, region)))

\* a payload whose image url is not a string makes upgradeImageUrl throw
NotAString == "[object Object]"

\* if (metadata && metadata.imageUrl) { productObj.imageUrl = ...; productObj.enriched = true }
Enriched(obj, found, metadata) ==
    IF found /\ metadata.imageUrl # "" /\ metadata.imageUrl # NotAString
    THEN [obj EXCEPT !.imageUrl = upgradeImageUrl(metadata.imageUrl), !.enriched = TRUE]
    ELSE obj

NoProductObj == [index |-> -1]
NoTask == [pc |-> "settled", outcome |-> "none", found |-> FALSE, metadata |-> NoMetadata,
           obj |-> NoProductObj]

\* the task of a listing when the loop that creates the tasks is over: it has run up to
\* its first await, that of fetchProductMetadata, or to its end
TaskOf(listing, obj, key, cache, time) ==
    IF listing.broken THEN [NoTask EXCEPT !.outcome = "failed"]
    ELSE IF ~ListingKept(listing) THEN [NoTask EXCEPT !.outcome = "skipped"]
    ELSE IF obj.productId = "" THEN [NoTask EXCEPT !.outcome = "pushed", !.obj = obj]
    ELSE IF CachedMetadataHit(cache, key, time)
         THEN [pc |-> "awaiting", outcome |-> "none", found |-> TRUE,
               metadata |-> cache[key].v, obj |-> obj]
         ELSE [pc |-> "awaiting", outcome |-> "none", found |-> FALSE,
               metadata |-> NoMetadata, obj |-> obj]

CreatedTask(listing, index, region, rate, cache, time) ==
    TaskOf(listing, ProductObj(listing, index, region, rate),
           cacheKey(extractProductId(listing.href), LocaleOf(region)), cache, time)

\* the records that the tasks push before their first await, in page order
RECURSIVE PushedAtCreation(_, _)
PushedAtCreation(tasks, i) ==
    IF i > Len(tasks) THEN <<>>
    ELSE (IF tasks[i].outcome = "pushed" THEN <<tasks[i].obj>> ELSE <<>>)
         \o PushedAtCreation(tasks, i + 1)

\* productCache after the lookups of the tasks that reach fetchProductMetadata
RECURSIVE CacheAfterGets(_, _, _, _)
CacheAfterGets(cache, tasks, region, time) ==
    IF tasks = <<>> THEN cache
    ELSE CacheAfterGets(
             IF Head(tasks).pc = "awaiting"
             THEN CacheAfterGet(cache, cacheKey(Head(tasks).obj.productId, LocaleOf(region)), time)
             ELSE cache,
             Tail(tasks), region, time)

\* Promise.all over tasks that never reject
MutAnySettled(tasks) == \E i \in 1..Len(tasks) : tasks[i].pc = "settled"

AllSettled(tasks) == \A i \in 1..Len(tasks) : tasks[i].pc = "settled"

\* the part of getProductInfo after the tasks: ranking, filtering, the object returned
RankedReturn(args, arr, rate, cache, rankedResults) ==
    LET filterDLC == OptionOn(args.options.filterDLC)
        sortByRelevance == OptionOn(args.options.sortByRelevance)
        useRanking == sortByRelevance /\ Len(arr) > 0
        finalResults == IF useRanking
                        THEN (IF filterDLC THEN rankedResults.baseGames ELSE rankedResults.all)
                        ELSE arr
    IN [kind |-> "ok",
        region |-> args.region,
        currency |-> CurrencyOf(args.region).symbol,
        currencyCode |-> CurrencyOf(args.region).name,
        exchangeRate |-> rate,
        searchResults |-> finalResults,
        baseGames |-> IF useRanking THEN rankedResults.baseGames ELSE <<>>,
        dlcAddons |-> IF useRanking THEN rankedResults.dlcAddons ELSE <<>>,
        totalResults |-> Len(arr),
        filteredCount |-> Len(finalResults),
        productsCached |-> Cardinality(DOMAIN cache)]

ReturnObject(args, arr, rate, cache) ==
    RankedReturn(args, arr, rate, cache, rankSearchResults(arr, args.searchString))

\* the object returned for a page without listings (kind "empty") and by the catch of
\* getProductInfo (kind "error")
EarlyReturn(kind, region) ==
    [kind |-> kind,
     region |-> region,
     currency |-> IF region \in DOMAIN currencyInfo THEN currencyInfo[region].symbol ELSE "€",
     currencyCode |-> IF region \in DOMAIN currencyInfo THEN currencyInfo[region].name ELSE "EUR",
     searchResults |-> <<>>,
     baseGames |-> <<>>,
     dlcAddons |-> <<>>]

----------------------------------------------------------------------------
(* getProductByID *)

\* the object returned by the catch of getProductByID
ByIdError(args) == [kind |-> "error", region |-> args.region, productId |-> args.productId]

\* if (metadata) return {...}: upgradeImageUrl throws for an image url that is not a
\* string, which the catch turns into the error object
ByIdFromMetadata(args, metadata) ==
    IF metadata.imageUrl = NotAString THEN ByIdError(args)
    ELSE [kind |-> "metadata_api",
          region |-> args.region,
          product |-> metadata,
          imageUrl |-> upgradeImageUrl(metadata.imageUrl)]

\* the object built from the product page
ByIdFromPage(args, page, rate) ==
    [kind |-> "store_page",
     region |-> args.region,
     product |-> [id |-> args.productId,
                  price |-> page.priceElement,
                  rawPrice |-> parsePrice(page.priceElement),
                  imageUrl |-> upgradeImageUrl(page.imageElement)],
     priceInEur |-> NumMul(parsePrice(page.priceElement), rate)]

----------------------------------------------------------------------------
(* routes/search.js: GET /search, fetchSearchResults and handleSearchError *)

REGIONAL_ENDPOINTS ==
    [r \in {"US", "EU", "JP", "AU"} |->
        CASE r = "US" -> "https://store.playstation.com/en-us/api"
          [] r = "EU" -> "https://store.playstation.com/en-gb/api"
          [] r = "JP" -> "https://store.playstation.com/ja-jp/api"
          [] OTHER    -> "https://store.playstation.com/en-au/api"]

ToUpperChar(c) ==
    IF \E u \in UpperLetters : LowerOf[u] = c
    THEN CHOOSE u \in UpperLetters : LowerOf[u] = c
    ELSE c

RECURSIVE ToUpperCase(_)
ToUpperCase(str) ==
    IF str = "" THEN "" ELSE ToUpperChar(CharAt(str, 1)) \o ToUpperCase(Tail(str))

\* an error: its message, its code ("" for none) and the status of its response (0
\* for an error without a response)
Error(message) == [message |-> message, code |-> "", status |-> 0]
NoError == Error("")

\* the catch of fetchSearchResults: the error it throws for the error it caught
TranslatedError(error, endpoint) ==
    IF error.status = 404
    THEN Error("Regional store (" \o endpoint \o ") is currently unavailable")
    ELSE IF error.code = "ECONNABORTED"
    THEN Error("Request timeout - regional store is responding slowly")
    ELSE IF error.code = "ENOTFOUND"
    THEN Error("Cannot reach regional store - network error")
    ELSE error

\* a response: its status, its error text, its retryable field ("undefined" when the
\* body has none) and the branch of the code that sent it
Response(status, error, retryable, branch) ==
    [status |-> status, error |-> error, retryable |-> retryable, branch |-> branch]
NoResponseSent == Response(0, "", "undefined", "none")

handleSearchError(error) ==
    IF Includes(error.message, "regional store")
    THEN Response(503, error.message, "undefined", "regionalStore")
    ELSE IF Includes(error.message, "timeout")
    THEN Response(504, "Request timeout", "true", "timeout")
    ELSE IF Includes(error.message, "network error") \/ Includes(error.message, "DNS")
    THEN Response(503, "Network connectivity issue", "true", "network")
    ELSE IF error.status # 0
    THEN (IF error.status = 429
          THEN Response(429, "Rate limit exceeded", "true", "status")
          ELSE IF error.status >= 500
          THEN Response(error.status, "Regional store server error", "true", "status")
          ELSE Response(error.status, "HTTP", "false", "status"))
    ELSE Response(500, "An unexpected error occurred", "false", "unexpected")

----------------------------------------------------------------------------
(* The price strings the parsePrice specification is run on. *)

MaxGarbageLen == 3
GarbageAlphabet == {"€", ",", ".", " ", "F", "-"}

RECURSIVE StringsUpTo(_, _)
StringsUpTo(alphabet, n) ==
    IF n = 0 THEN {""}
    ELSE LET S == StringsUpTo(alphabet, n - 1)
         IN S \cup {s \o c : s \in S, c \in alphabet}

GarbageStrings == StringsUpTo(GarbageAlphabet, MaxGarbageLen)

\* A locale-formatted amount: a currency symbol, a leading group of digits, groups
\* of three digits, and decimals, written in one of three styles.
FormatStyles == {"us", "eu", "plain"}
FormatSymbols == {"", "€", "¥", "$"}
FormatLeads == {"1", "12", "59"}
FormatGroups == {<<>>, <<"234">>, <<"234", "567">>}
FormatDecimals == {"", "5", "56", "99", "00"}
\* (few enough digits for amounts and their cross products to stay within TLC's
\* 32-bit integers)
Formatted ==
    {f \in [sym : FormatSymbols, lead : FormatLeads, groups : FormatGroups,
            frac : FormatDecimals, style : FormatStyles] :
        Len(f.lead) + 3 * Len(f.groups) + 2 * Len(f.frac) <= 9}

RECURSIVE Join(_, _)
Join(groups, sep) ==
    IF groups = <<>> THEN "" ELSE sep \o Head(groups) \o Join(Tail(groups), sep)

Render(f) ==
    LET groupSep == CASE f.style = "us" -> "," [] f.style = "eu" -> "." [] OTHER -> ""
        decSep   == IF f.style = "eu" THEN "," ELSE "."
    IN f.sym \o f.lead \o Join(f.groups, groupSep)
          \o (IF f.frac = "" THEN "" ELSE decSep \o f.frac)

\* the amount a formatted price denotes
Amount(f) ==
    Rat(DigitsValue(f.lead \o Join(f.groups, "") \o f.frac), Pow10(Len(f.frac)))

FormattedStrings == {Render(f) : f \in Formatted}
PriceStrings == GarbageStrings \cup FormattedStrings

(* Each specification runs one part of the program and leaves the variables of the
   other parts at these values. *)

NumCallers == 2
Callers == 1..NumCallers
IdleCall == [pc |-> "idle", now |-> 0, response |-> NoResponse, result |-> NoRates]

RatesIdle ==
    /\ exchangeRateCache = [timestamp |-> 0, rates |-> NoRates]
    /\ rateCall = [c \in Callers |-> IdleCall]

MaxCalls == 3
\* the number of calls the callers have made between them
RECURSIVE CallsMadeBy(_, _)
CallsMadeBy(calls, c) == IF c = 0 THEN 0 ELSE calls[c].n + CallsMadeBy(calls, c - 1)
CallsMade(calls) == CallsMadeBy(calls, NumCallers)
IdleMetaCall ==
    [pc |-> "idle", n |-> 0, productId |-> "", localeCode |-> "", requested |-> FALSE,
     found |-> FALSE, result |-> NoMetadata]

MetaIdle ==
    /\ productCache = EmptyCache
    /\ metaCall = [c \in Callers |-> IdleMetaCall]

RankIdle == rankResults = <<>> /\ rankQuery = "" /\ ranked = NoRanking

PriceIdle == priceString = "" /\ price = NaN

NoProduct == [title |-> "", price |-> "", productId |-> ""]
ScoreIdle == product1 = NoProduct /\ product2 = NoProduct /\ matchScore = NaN

RelevanceIdle ==
    relevanceArgs = [productName |-> "", searchQuery |-> ""] /\ relevanceScore = NaN

SimIdle == simArgs = [str1 |-> "", str2 |-> ""] /\ similarity = NaN

NoMatches == [exact |-> <<>>, likely |-> <<>>, potential |-> <<>>, noMatch |-> FALSE]
MatchIdle ==
    /\ productData = [title |-> "", price |-> "", productId |-> "", region |-> ""]
    /\ regionIndex = 0
    /\ regionData = {}
    /\ matches = NoMatches
    /\ regionFetches = <<>>

NoReturn == [kind |-> "none"]
SearchIdle ==
    /\ searchArgs = [searchString |-> "", region |-> "",
                     options |-> [filterDLC |-> "undefined", sortByRelevance |-> "undefined"]]
    /\ searchPage = <<>>
    /\ exchangeRates = NoRates
    /\ exchangeRate = NaN
    /\ searchTask = <<>>
    /\ resultArr = <<>>
    /\ returnObject = NoReturn

KeyIdle == keyCall = <<>>

RouteIdle ==
    /\ routeQuery = [query |-> "", region |-> ""]
    /\ upstream = [kind |-> "none", error |-> NoError]
    /\ routeError = NoError
    /\ routeResponse = NoResponseSent

NoPage == [priceElement |-> "", imageElement |-> ""]
ByIdIdle ==
    /\ byIdArgs = [productId |-> "", region |-> ""]
    /\ byIdPage = NoPage
    /\ byIdReturn = NoReturn

\* the initial values of the parts that the specification of one part does not run
IdleExcept(part) ==
    /\ IF part = "price" THEN TRUE ELSE PriceIdle
    /\ IF part = "rank" THEN TRUE ELSE RankIdle
    /\ IF part \in {"rates", "meta", "search", "byId"} THEN TRUE ELSE now = 0 /\ RatesIdle
    /\ IF part \in {"meta", "search", "byId", "keys"} THEN TRUE ELSE MetaIdle
    /\ IF part = "score" THEN TRUE ELSE ScoreIdle
    /\ IF part = "match" THEN TRUE ELSE MatchIdle
    /\ IF part = "search" THEN TRUE ELSE SearchIdle
    /\ IF part = "similarity" THEN TRUE ELSE SimIdle
    /\ IF part = "byId" THEN TRUE ELSE ByIdIdle
    /\ IF part = "route" THEN TRUE ELSE RouteIdle
    /\ IF part = "keys" THEN TRUE ELSE KeyIdle
    /\ IF part = "relevance" THEN TRUE ELSE RelevanceIdle


InitPrice ==
    /\ pc = "parsePrice"
    /\ priceString \in PriceStrings
    /\ price = NaN
    /\ IdleExcept("price")

ParsePrice ==
    /\ pc = "parsePrice"
    /\ price' = parsePrice(priceString)
    /\ pc' = "done"
    /\ UNCHANGED <<priceString, notPrice>>

NextPrice == ParsePrice

SpecPrice == InitPrice /\ [][NextPrice]_vars

----------------------------------------------------------------------------
(* The specification of rankSearchResults: a list of products, a query, one call. *)

MaxResults == 3

ProductNames ==
    {"DOOM (2016)", "DOOM Eternal Deluxe Edition DLC Pack", "DOOM", "DOOM Eternal",
     "Quake II", "DOOM The Game 2020"}

SearchQueries == {"Doom", "Doom Eternal", "Quake Doom", "Doom Eternal Quake Pack"}

RECURSIVE SeqsUpTo(_, _)
SeqsUpTo(S, n) ==
    IF n = 0 THEN {<<>>}
    ELSE LET T == SeqsUpTo(S, n - 1)
         IN T \cup {Append(t, x) : t \in T, x \in S}

\* the products of a page, numbered from 0 in page order
ResultLists ==
    {[i \in 1..Len(names) |-> [index |-> i - 1, name |-> names[i]]] :
        names \in SeqsUpTo(ProductNames, MaxResults)}

InitRank ==
    /\ pc = "rankSearchResults"
    /\ rankResults \in ResultLists
    /\ rankQuery \in SearchQueries
    /\ ranked = NoRanking
    /\ IdleExcept("rank")

RankSearchResults ==
    /\ pc = "rankSearchResults"
    /\ ranked' = rankSearchResults(rankResults, rankQuery)
    /\ pc' = "done"
    /\ UNCHANGED <<rankResults, rankQuery, notRank>>

NextRank == RankSearchResults

SpecRank == InitRank /\ [][NextRank]_vars

----------------------------------------------------------------------------
(* The specification of calculateRelevanceScore: a name and a query, one     *)
(* call.  The names carry none, one and several of the markers, the          *)
(* qualifiers and the bonus cues; the queries have one to four words.        *)

RelevanceNames ==
    ProductNames \cup {"", "Quake Gamepack", "GOTY Quake", "Quake 20201 Full Game"}
RelevanceQueries == SearchQueries \cup {"", "doom  quake zzz"}

InitRelevance ==
    /\ pc = "calculateRelevanceScore"
    /\ relevanceArgs \in [productName : RelevanceNames, searchQuery : RelevanceQueries]
    /\ relevanceScore = NaN
    /\ IdleExcept("relevance")

CalculateRelevanceScore ==
    /\ pc = "calculateRelevanceScore"
    /\ relevanceScore' = calculateRelevanceScore(relevanceArgs.productName,
                                                 relevanceArgs.searchQuery)
    /\ pc' = "done"
    /\ UNCHANGED <<relevanceArgs, notRelevance>>

NextRelevance == CalculateRelevanceScore

SpecRelevance == InitRelevance /\ [][NextRelevance]_vars

----------------------------------------------------------------------------
(* The specification of the exchange-rate cache: concurrent calls of           *)
(* getExchangeRates, each suspended at its request, and the clock.             *)

MaxTicks == 3
Tick == CACHE_DURATION \div 2
\* Date.now() is far from 0, the timestamp the cache starts with
StartTime == 2 * CACHE_DURATION

InitRates ==
    /\ pc = "rates"
    /\ now = StartTime
    /\ RatesIdle
    /\ IdleExcept("rates")

\* getExchangeRates up to its return from the cache or its await of the request
GetExchangeRates(c) ==
    /\ pc = "rates"
    /\ rateCall[c].pc \in {"idle", "returned"}
    /\ IF CacheUsable(exchangeRateCache, now)
       THEN rateCall' = [rateCall EXCEPT ![c] =
                [pc |-> "returned", now |-> now, response |-> NoResponse,
                 result |-> exchangeRateCache.rates]]
       ELSE rateCall' = [rateCall EXCEPT ![c] =
                [pc |-> "awaiting", now |-> now, response |-> NoResponse, result |-> NoRates]]
    /\ UNCHANGED <<pc, now, exchangeRateCache, notRates>>

\* the request settles: the rest of the try block, or the catch block
RatesSettle(c) ==
    /\ pc = "rates"
    /\ rateCall[c].pc = "awaiting"
    /\ \E response \in RateResponses :
          IF RefreshFails(response)
          THEN /\ rateCall' = [rateCall EXCEPT ![c].pc = "returned", ![c].response = response,
                                  ![c].result = FailedRefreshResult(exchangeRateCache)]
               /\ UNCHANGED exchangeRateCache
          ELSE LET rates == RefreshedRates(response.rates)
               IN /\ exchangeRateCache' = [timestamp |-> rateCall[c].now, rates |-> rates]
                  /\ rateCall' = [rateCall EXCEPT ![c].pc = "returned", ![c].response = response,
                                     ![c].result = rates]
    /\ UNCHANGED <<pc, now, notRates>>

ClockTick ==
    /\ pc = "rates"
    /\ now < StartTime + MaxTicks * Tick
    /\ now' = now + Tick
    /\ UNCHANGED <<pc, rateVars, notRates>>

NextRates ==
    \/ \E c \in Callers : GetExchangeRates(c)
    \/ \E c \in Callers : RatesSettle(c)
    \/ ClockTick

SpecRates == InitRates /\ [][NextRates]_vars

\* The same calls on the scale of one request: the clock moves a millisecond at a
\* time, far less than the 5000 ms a request may take, and the cache never ages.
MaxMillis == 2

MillisecondPasses ==
    /\ pc = "rates"
    /\ now < StartTime + MaxMillis
    /\ now' = now + 1
    /\ UNCHANGED <<pc, rateVars, notRates>>

NextRatesRace ==
    \/ \E c \in Callers : GetExchangeRates(c)
    \/ \E c \in Callers : RatesSettle(c)
    \/ MillisecondPasses

SpecRatesRace == InitRates /\ [][NextRatesRace]_vars

----------------------------------------------------------------------------
(* The specification of the metadata cache: concurrent calls of                *)
(* fetchProductMetadata, each suspended at its request, and the clock.         *)

MetaProductIds == {"EP0001-CUSA00001_00-DOOM"}
\* the image of a product is of no concern to the cache, but two responses for one
\* product may differ: the product API may answer with another image a moment later
MetaResponses ==
    {r \in MetadataResponses : r.kind = "ok" => r.imageUrl # ""}
        \cup {[kind |-> "ok", imageUrl |-> "/img/128/cover-v2.png"]}
MetaLocales == {regionMap["BE"], regionMap["JP"]}
MetaTick == TtlMs \div 2

InitMeta ==
    /\ pc = "meta"
    /\ now = StartTime
    /\ MetaIdle
    /\ RatesIdle
    /\ IdleExcept("meta")

\* fetchProductMetadata up to its return from the cache or its await of the request
FetchProductMetadata(c) ==
    /\ pc = "meta"
    /\ metaCall[c].pc \in {"idle", "returned"}
    /\ CallsMade(metaCall) < MaxCalls
    /\ \E productId \in MetaProductIds, localeCode \in MetaLocales :
          LET key == cacheKey(productId, localeCode)
              call == [pc |-> "awaiting", n |-> metaCall[c].n + 1, productId |-> productId,
                       localeCode |-> localeCode, requested |-> TRUE, found |-> FALSE,
                       result |-> NoMetadata]
          IN /\ productCache' = CacheAfterGet(productCache, key, now)
             /\ IF CachedMetadataHit(productCache, key, now)
                THEN metaCall' = [metaCall EXCEPT ![c] =
                        [call EXCEPT !.pc = "returned", !.requested = FALSE, !.found = TRUE,
                                     !.result = productCache[key].v]]
                ELSE metaCall' = [metaCall EXCEPT ![c] = call]
    /\ UNCHANGED <<pc, now, notMeta>>

\* the request settles: the metadata is stored and returned, or null is returned
MetadataSettle(c) ==
    /\ pc = "meta"
    /\ metaCall[c].pc = "awaiting"
    /\ \E response \in MetaResponses :
          IF response.kind = "ok"
          THEN LET metadata == Metadata(metaCall[c].productId, response, now)
                   key == cacheKey(metaCall[c].productId, metaCall[c].localeCode)
               IN /\ productCache' = CacheSet(productCache, key, metadata, now)
                  /\ metaCall' = [metaCall EXCEPT ![c].pc = "returned", ![c].found = TRUE,
                                     ![c].result = metadata]
          ELSE /\ metaCall' = [metaCall EXCEPT ![c].pc = "returned", ![c].found = FALSE,
                                  ![c].result = NoMetadata]
               /\ UNCHANGED productCache
    /\ UNCHANGED <<pc, now, notMeta>>

MetaClockTick ==
    /\ pc = "meta"
    /\ now < StartTime + MaxTicks * MetaTick
    /\ now' = now + MetaTick
    /\ UNCHANGED <<pc, metaVars, notMeta>>

NextMeta ==
    \/ \E c \in Callers : FetchProductMetadata(c)
    \/ \E c \in Callers : MetadataSettle(c)
    \/ MetaClockTick

SpecMeta == InitMeta /\ [][NextMeta]_vars

----------------------------------------------------------------------------
(* The specification of the cache key: two calls of fetchProductMetadata, one *)
(* after the other, for any two pairs of a product id and a locale.           *)

MaxIdParts == 2
\* product ids are strings of these parts, so that an id may end like a key
IdParts == {"P", "_", "en-be"}
RECURSIVE IdsUpTo(_)
IdsUpTo(n) ==
    IF n = 0 THEN {""}
    ELSE IdsUpTo(n - 1) \cup {id \o part : id \in IdsUpTo(n - 1), part \in IdParts}
KeyProductIds == IdsUpTo(MaxIdParts)
KeyLocales == {regionMap[r] : r \in DOMAIN regionMap}
KeyArguments == [productId : KeyProductIds, localeCode : KeyLocales]

InitKeys ==
    /\ pc = "keys"
    /\ productCache = EmptyCache
    /\ metaCall = [c \in Callers |-> IdleMetaCall]
    /\ keyCall \in {<<[args |-> a, pc |-> "idle", key |-> "", hit |-> FALSE, wrote |-> FALSE],
                      [args |-> b, pc |-> "idle", key |-> "", hit |-> FALSE, wrote |-> FALSE]>> :
                        a \in KeyArguments, b \in KeyArguments}
    /\ IdleExcept("keys")

\* call i of fetchProductMetadata, from its lookup to its return: it returns the
\* entry of its key, or stores the metadata of the response under its key
KeyedFetch(i) ==
    /\ pc = "keys"
    /\ keyCall[i].pc = "idle"
    /\ \A j \in 1..(i - 1) : keyCall[j].pc = "returned"
    /\ LET key == cacheKey(keyCall[i].args.productId, keyCall[i].args.localeCode)
           hit == CachedMetadataHit(productCache, key, now)
       IN /\ keyCall' = [keyCall EXCEPT ![i].pc = "returned", ![i].key = key,
                                        ![i].hit = hit, ![i].wrote = ~hit]
          /\ productCache' =
                IF hit THEN productCache
                ELSE CacheSet(productCache, key,
                              Metadata(keyCall[i].args.productId,
                                       [kind |-> "ok", imageUrl |-> "/img/128/cover.png"], now),
                              now)
    /\ UNCHANGED <<pc, notKeys>>

NextKeys == \E i \in 1..2 : KeyedFetch(i)

SpecKeys == InitKeys /\ [][NextKeys]_vars

----------------------------------------------------------------------------
(* The specification of calculateStringSimilarity: two strings, one call.    *)

MaxStrLen == 3
SimAlphabet == {"a", "b"}
SimStrings == StringsUpTo(SimAlphabet, MaxStrLen)

InitSim ==
    /\ pc = "calculateStringSimilarity"
    /\ simArgs \in [str1 : SimStrings, str2 : SimStrings]
    /\ similarity = NaN
    /\ IdleExcept("similarity")

CalculateStringSimilarity ==
    /\ pc = "calculateStringSimilarity"
    /\ similarity' = calculateStringSimilarity(simArgs.str1, simArgs.str2)
    /\ pc' = "done"
    /\ UNCHANGED <<simArgs, notSim>>

NextSim == CalculateStringSimilarity

SpecSim == InitSim /\ [][NextSim]_vars

----------------------------------------------------------------------------
(* The specification of calculateMatchScore: two product payloads, one call. *)

MatchTitles == {"", "DOOM", "Doom", "DOOM 3"}
MatchPrices == {"", "Free", "0.00", "59.99", "60"}
MatchIds == {"", "EP0002", "EP0003"}
ProductPayloads == [title : MatchTitles, price : MatchPrices, productId : MatchIds]

InitScore ==
    /\ pc = "calculateMatchScore"
    /\ product1 \in ProductPayloads
    /\ product2 \in ProductPayloads
    /\ matchScore = NaN
    /\ IdleExcept("score")

CalculateMatchScore ==
    /\ pc = "calculateMatchScore"
    /\ matchScore' = calculateMatchScore(product1, product2)
    /\ pc' = "done"
    /\ UNCHANGED <<product1, product2, notScore>>

NextScore == CalculateMatchScore

SpecScore == InitScore /\ [][NextScore]_vars

----------------------------------------------------------------------------
(* The specification of matchProductsCrossRegion: one call with the default  *)
(* targetRegions; every fetch of a region's product fails (null) or returns  *)
(* a payload of the backend.                                                 *)

MatchProductData ==
    [title : {"DOOM"}, price : {"-1", "59.99"}, productId : {"", "EP0002"},
     region : {"us", ExtractedRegion("us")}]
RegionPayloads ==
    [title : {"", "DOOM"}, price : {"-2", "-3", "59.99"}, productId : {"", "EP0002"}]
        \cup {NoProduct}

InitMatch ==
    /\ pc = "matchLoop"
    /\ productData \in MatchProductData
    /\ regionIndex = 1
    /\ regionData = {}
    /\ matches = NoMatches
    /\ regionFetches = <<>>
    /\ IdleExcept("match")

\* if (region === productData.region) continue;
MatchSkipOwnRegion ==
    /\ pc = "matchLoop"
    /\ regionIndex <= Len(targetRegions)
    /\ targetRegions[regionIndex] = productData.region
    /\ regionIndex' = regionIndex + 1
    /\ UNCHANGED <<pc, productData, regionData, matches, regionFetches, notMatch>>

\* await fetchProductFromRegion(productData, region)
MatchFetch ==
    /\ pc = "matchLoop"
    /\ regionIndex <= Len(targetRegions)
    /\ targetRegions[regionIndex] # productData.region
    /\ pc' = "matchFetch"
    /\ regionFetches' = Append(regionFetches, Fetch(targetRegions[regionIndex], TRUE, {}))
    /\ UNCHANGED <<productData, regionIndex, regionData, matches, notMatch>>

\* the fetch failed: fetchProductFromRegion returns null and the region is passed over;
\* an error that left fetchProductFromRegion would end the call in the catch block
MatchFetchFails ==
    /\ pc = "matchFetch"
    /\ \E failure \in FetchFailures :
          LET result == fetchProductFromRegion([kind |-> failure])
          IN /\ regionData' = result.value
             /\ regionIndex' = IF result.kind = "thrown" THEN regionIndex ELSE regionIndex + 1
             /\ pc' = IF result.kind = "thrown" THEN "matchThrown" ELSE "matchLoop"
             /\ regionFetches' = Settled(regionFetches, result.value)
    /\ UNCHANGED <<productData, matches, notMatch>>

\* the fetch returned a payload: it is scored and put in its bucket
MatchFetchReturns ==
    /\ pc = "matchFetch"
    /\ \E data \in RegionPayloads :
          LET result == fetchProductFromRegion([kind |-> "ok", data |-> data])
          IN /\ regionData' = result.value
             /\ matches' = PushMatch(matches, targetRegions[regionIndex], data)
             /\ regionFetches' = Settled(regionFetches, result.value)
    /\ regionIndex' = regionIndex + 1
    /\ pc' = "matchLoop"
    /\ UNCHANGED <<productData, notMatch>>

\* after the loop: noMatch is set and matches is returned
MatchReturn ==
    /\ pc = "matchLoop"
    /\ regionIndex > Len(targetRegions)
    /\ matches' = [matches EXCEPT !.noMatch = NoMatchFlag(matches)]
    /\ pc' = "matchReturned"
    /\ UNCHANGED <<productData, regionIndex, regionData, regionFetches, notMatch>>

NextMatch ==
    \/ MatchSkipOwnRegion
    \/ MatchFetch
    \/ MatchFetchFails
    \/ MatchFetchReturns
    \/ MatchReturn

SpecMatch == InitMatch /\ [][NextMatch]_vars

----------------------------------------------------------------------------
(* The specification of getProductInfo: one search; the storefront request   *)
(* fails or returns a page, the rate request and every metadata request      *)
(* settle in any order the network allows.                                   *)

MaxListings == 2

DoomId == "EP0001-CUSA00001_00-DOOM"
PackId == "EP0001-CUSA00001_00-PACK"
TileImage == "/img/128/tile.png"
Listings ==
    {[name |-> "DOOM", price |-> "$59.99", href |-> "/en-be/product/" \o DoomId,
      imageUrl |-> TileImage, broken |-> FALSE],
     [name |-> "Demon Skin Pack", price |-> "$9.99",
      href |-> "/en-be/product/" \o PackId, imageUrl |-> TileImage, broken |-> FALSE],
     [name |-> "DOOM II", price |-> "N.A.", href |-> "/en-be/concept/10000",
      imageUrl |-> TileImage, broken |-> FALSE],
     [name |-> "", price |-> "$19.99", href |-> "", imageUrl |-> "", broken |-> FALSE],
     [name |-> "DOOM 3", price |-> "", href |-> "", imageUrl |-> "", broken |-> FALSE],
     [name |-> "", price |-> "", href |-> "", imageUrl |-> "", broken |-> TRUE]}

SearchPages == SeqsUpTo(Listings, MaxListings)
\* the options object: each option is absent, true or false
SearchOptions ==
    {[filterDLC |-> "undefined", sortByRelevance |-> "undefined"],
     [filterDLC |-> "true", sortByRelevance |-> "true"],
     [filterDLC |-> "false", sortByRelevance |-> "undefined"],
     [filterDLC |-> "undefined", sortByRelevance |-> "false"]}
SearchRegions == {"BE", "IN", RegionList}
\* the rate request ends in an error, in a payload with every rate, or in a payload
\* without the rate of the rupee
SearchRateResponses ==
    {r \in RateResponses : r.kind = "error" \/ (r.kind = "ok" /\ r.rates.JPY = RatInt(160))}
\* a request for metadata ends in an error, in a product with an image, or in a
\* product whose image url is not a string
SearchMetadataResponses ==
    {r \in MetadataResponses : r.kind = "error" \/ r.imageUrl # ""}
        \cup {[kind |-> "ok", imageUrl |-> NotAString]}
\* the metadata cache before the search: empty, or with the entry of an earlier search
\* in the region BE
WarmCache ==
    CacheSet(EmptyCache, cacheKey(DoomId, regionMap["BE"]),
             Metadata(DoomId, [kind |-> "ok", imageUrl |-> "/img/128/cover.png"], CACHE_DURATION),
             CACHE_DURATION)

InitSearch ==
    /\ pc = "searchStorefront"
    /\ now = StartTime
    /\ exchangeRateCache = [timestamp |-> 0, rates |-> NoRates]
    /\ rateCall = [c \in Callers |-> IdleCall]
    /\ metaCall = [c \in Callers |-> IdleMetaCall]
    /\ searchArgs \in [searchString : {"Doom"}, region : SearchRegions, options : SearchOptions]
    /\ productCache \in IF searchArgs.region = "BE" THEN {EmptyCache, WarmCache} ELSE {EmptyCache}
    /\ searchPage \in SearchPages
    /\ exchangeRates = NoRates
    /\ exchangeRate = NaN
    /\ searchTask = <<>>
    /\ resultArr = <<>>
    /\ returnObject = NoReturn
    /\ IdleExcept("search")

\* region.toUpperCase() throws in the try block, before the request, and throws again
\* in the catch block, which builds its object from region.toUpperCase(): the promise
\* that getProductInfo returned rejects
SearchRegionThrows ==
    /\ pc = "searchStorefront"
    /\ ~IsString(searchArgs.region)
    /\ pc' = "searchThrown"
    /\ UNCHANGED <<searchVars, now, exchangeRateCache, productCache, notSearch>>

\* axios.get of the search page throws: the catch of getProductInfo returns
SearchStorefrontFails ==
    /\ pc = "searchStorefront"
    /\ IsString(searchArgs.region)
    /\ returnObject' = EarlyReturn("error", searchArgs.region)
    /\ pc' = "searchReturned"
    /\ UNCHANGED <<searchArgs, searchPage, exchangeRates, exchangeRate, searchTask, resultArr,
                   now, exchangeRateCache, productCache, notSearch>>

\* the page has no listing
SearchNoProducts ==
    /\ pc = "searchStorefront"
    /\ IsString(searchArgs.region)
    /\ Len(searchPage) = 0
    /\ returnObject' = EarlyReturn("empty", searchArgs.region)
    /\ pc' = "searchReturned"
    /\ UNCHANGED <<searchArgs, searchPage, exchangeRates, exchangeRate, searchTask, resultArr,
                   now, exchangeRateCache, productCache, notSearch>>

\* the page has listings: await getExchangeRates()
SearchPageArrives ==
    /\ pc = "searchStorefront"
    /\ IsString(searchArgs.region)
    /\ Len(searchPage) > 0
    /\ pc' = "searchRates"
    /\ UNCHANGED <<searchVars, now, exchangeRateCache, productCache, notSearch>>

\* the loop over the listings has created the tasks, each of which has run to its
\* first await or to its end: await Promise.all(processPromises)
TasksCreated(rate, tasks) ==
    /\ exchangeRate' = rate
    /\ searchTask' = tasks
    /\ resultArr' = PushedAtCreation(tasks, 1)
    /\ productCache' = CacheAfterGets(productCache, tasks, searchArgs.region, now)

\* const exchangeRate = exchangeRates[currencyCode] || 1.0, and the loop
RatesReturned(rate) ==
    TasksCreated(rate, [i \in 1..Len(searchPage) |->
                           CreatedTask(searchPage[i], i - 1, searchArgs.region, rate,
                                       productCache, now)])

\* const exchangeRates = await getExchangeRates()
TableReturned(table) ==
    /\ exchangeRates' = table
    /\ RatesReturned(ExchangeRateOf(table, CurrencyOf(searchArgs.region).name))

\* getExchangeRates returns the cached table, the table of the response, or after a
\* failed request the last or the hardcoded table; then the tasks are created
SearchRatesSettle ==
    /\ pc = "searchRates"
    /\ \E response \in SearchRateResponses :
          IF CacheUsable(exchangeRateCache, now)
          THEN /\ TableReturned(exchangeRateCache.rates)
               /\ UNCHANGED exchangeRateCache
          ELSE IF RefreshFails(response)
          THEN /\ TableReturned(FailedRefreshResult(exchangeRateCache))
               /\ UNCHANGED exchangeRateCache
          ELSE /\ TableReturned(RefreshedRates(response.rates))
               /\ exchangeRateCache' = [timestamp |-> now,
                                        rates |-> RefreshedRates(response.rates)]
    /\ pc' = "searchTasks"
    /\ UNCHANGED <<searchArgs, searchPage, returnObject, now, notSearch>>

\* fetchProductMetadata returns to the task of listing i, from the cache or with what
\* the request ended in; the task enriches its record, or skips the enrichment when
\* that throws, and pushes the record
TaskSettles(i) ==
    /\ pc = "searchTasks"
    /\ searchTask[i].pc = "awaiting"
    /\ \E response \in SearchMetadataResponses :
          LET task == searchTask[i]
              key == cacheKey(task.obj.productId, LocaleOf(searchArgs.region))
              found == task.found \/ response.kind = "ok"
              metadata == IF task.found THEN task.metadata
                          ELSE IF response.kind = "ok"
                               THEN Metadata(task.obj.productId, response, now)
                               ELSE NoMetadata
              obj == Enriched(task.obj, found, metadata)
          IN /\ productCache' = IF ~task.found /\ response.kind = "ok"
                                THEN CacheSet(productCache, key, metadata, now)
                                ELSE productCache
             /\ searchTask' = [searchTask EXCEPT ![i] =
                   [pc |-> "settled", outcome |-> "pushed", found |-> found,
                    metadata |-> metadata, obj |-> obj]]
             /\ resultArr' = Append(resultArr, obj)
    /\ UNCHANGED <<pc, searchArgs, searchPage, exchangeRates, exchangeRate, returnObject,
                   now, exchangeRateCache, notSearch>>

\* Promise.all resolves: the records are ranked and filtered and the object is returned
SearchCompletes ==
    /\ pc = "searchTasks"
    /\ AllSettled(searchTask)
    /\ returnObject' = ReturnObject(searchArgs, resultArr, exchangeRate, productCache)
    /\ pc' = "searchReturned"
    /\ UNCHANGED <<searchArgs, searchPage, exchangeRates, exchangeRate, searchTask, resultArr,
                   now, exchangeRateCache, productCache, notSearch>>

NextSearch ==
    \/ SearchRegionThrows
    \/ SearchStorefrontFails
    \/ SearchNoProducts
    \/ SearchPageArrives
    \/ SearchRatesSettle
    \/ \E i \in 1..Len(searchTask) : TaskSettles(i)
    \/ SearchCompletes

SpecSearch == InitSearch /\ [][NextSearch]_vars

----------------------------------------------------------------------------
(* The specification of getProductByID: one lookup; the metadata request, the *)
(* request of the product page and the rate request each fail or succeed.     *)

ByIdProducts == {DoomId, PackId}
ByIdPages == [priceElement : {"", "€59,99", "N.A."}, imageElement : {"", "/img/200/hero.png"}]

InitById ==
    /\ pc = "getProductByID"
    /\ now = StartTime
    /\ exchangeRateCache = [timestamp |-> 0, rates |-> NoRates]
    /\ rateCall = [c \in Callers |-> IdleCall]
    /\ metaCall = [c \in Callers |-> IdleMetaCall]
    /\ productCache \in {EmptyCache, WarmCache}
    /\ byIdArgs \in [productId : ByIdProducts, region : SearchRegions]
    /\ byIdPage = NoPage
    /\ byIdReturn = NoReturn
    /\ IdleExcept("byId")

\* regionMap[region.toUpperCase()] throws in the try block: the catch returns
ByIdRegionThrows ==
    /\ pc = "getProductByID"
    /\ ~IsString(byIdArgs.region)
    /\ byIdReturn' = ByIdError(byIdArgs)
    /\ pc' = "byIdReturned"
    /\ UNCHANGED <<byIdArgs, byIdPage, now, exchangeRateCache, productCache, notById>>

\* fetchProductMetadata up to its return from the cache or its await of the request
ByIdLookup ==
    /\ pc = "getProductByID"
    /\ IsString(byIdArgs.region)
    /\ LET key == cacheKey(byIdArgs.productId, LocaleOf(byIdArgs.region))
       IN /\ productCache' = CacheAfterGet(productCache, key, now)
          /\ IF CachedMetadataHit(productCache, key, now)
             THEN /\ byIdReturn' = ByIdFromMetadata(byIdArgs, productCache[key].v)
                  /\ pc' = "byIdReturned"
             ELSE /\ pc' = "byIdMetadata"
                  /\ UNCHANGED byIdReturn
    /\ UNCHANGED <<byIdArgs, byIdPage, now, exchangeRateCache, notById>>

\* the metadata request settles: with metadata getProductByID returns, without it
\* goes on to the product page
ByIdMetadataSettles ==
    /\ pc = "byIdMetadata"
    /\ \E response \in SearchMetadataResponses :
          IF response.kind = "ok"
          THEN /\ productCache' =
                     CacheSet(productCache,
                              cacheKey(byIdArgs.productId, LocaleOf(byIdArgs.region)),
                              Metadata(byIdArgs.productId, response, now), now)
               /\ byIdReturn' = ByIdFromMetadata(byIdArgs,
                                                 Metadata(byIdArgs.productId, response, now))
               /\ pc' = "byIdReturned"
          ELSE /\ pc' = "byIdStorefront"
               /\ UNCHANGED <<productCache, byIdReturn>>
    /\ UNCHANGED <<byIdArgs, byIdPage, now, exchangeRateCache, notById>>

\* axios.get of the product page throws: the catch returns
ByIdStorefrontFails ==
    /\ pc = "byIdStorefront"
    /\ byIdReturn' = ByIdError(byIdArgs)
    /\ pc' = "byIdReturned"
    /\ UNCHANGED <<byIdArgs, byIdPage, now, exchangeRateCache, productCache, notById>>

\* the product page arrives: await getExchangeRates()
ByIdPageArrives ==
    /\ pc = "byIdStorefront"
    /\ byIdPage' \in ByIdPages
    /\ pc' = "byIdRates"
    /\ UNCHANGED <<byIdArgs, byIdReturn, now, exchangeRateCache, productCache, notById>>

ByIdTableReturned(table) ==
    byIdReturn' = ByIdFromPage(byIdArgs, byIdPage,
                               ExchangeRateOf(table, CurrencyOf(byIdArgs.region).name))

\* getExchangeRates returns and getProductByID returns the object of the page
ByIdRatesSettle ==
    /\ pc = "byIdRates"
    /\ \E response \in SearchRateResponses :
          IF CacheUsable(exchangeRateCache, now)
          THEN /\ ByIdTableReturned(exchangeRateCache.rates)
               /\ UNCHANGED exchangeRateCache
          ELSE IF RefreshFails(response)
          THEN /\ ByIdTableReturned(FailedRefreshResult(exchangeRateCache))
               /\ UNCHANGED exchangeRateCache
          ELSE /\ ByIdTableReturned(RefreshedRates(response.rates))
               /\ exchangeRateCache' = [timestamp |-> now,
                                        rates |-> RefreshedRates(response.rates)]
    /\ pc' = "byIdReturned"
    /\ UNCHANGED <<byIdArgs, byIdPage, now, productCache, notById>>

NextById ==
    \/ ByIdRegionThrows
    \/ ByIdLookup
    \/ ByIdMetadataSettles
    \/ ByIdStorefrontFails
    \/ ByIdPageArrives
    \/ ByIdRatesSettle

SpecById == InitById /\ [][NextById]_vars

----------------------------------------------------------------------------
(* The specification of GET /search: one request; the upstream request       *)
(* succeeds, or fails in one of the ways axios reports.                      *)

\* "undefined" stands for a parameter that the request does not have
RouteQueries == {"undefined", "doom", "gta", "fifa"}
RouteRegions == {"undefined", "us", "US", "EU", "JP", "AU", "BE"}
\* the errors of axios: a timeout, a failed name lookup, a refused connection, and a
\* response with a status outside 2xx
AxiosErrors ==
    {[message |-> "timeout of 10000ms exceeded", code |-> "ECONNABORTED", status |-> 0],
     [message |-> "getaddrinfo ENOTFOUND store.playstation.com", code |-> "ENOTFOUND",
      status |-> 0],
     [message |-> "connect ECONNREFUSED", code |-> "ECONNREFUSED", status |-> 0]}
    \cup {[message |-> "Request failed with status code", code |-> "ERR_BAD_REQUEST",
           status |-> st] : st \in {404, 429}}
    \cup {[message |-> "Request failed with status code", code |-> "ERR_BAD_RESPONSE",
           status |-> 503]}
\* what the request ends in: a payload with data, a payload without, or an error
UpstreamOutcomes ==
    {[kind |-> "ok", error |-> NoError],
     [kind |-> "invalid", error |-> Error("Invalid API response structure")]}
    \cup {[kind |-> "error", error |-> e] : e \in AxiosErrors}

\* const { query, region = 'US' } = req.query
RouteRegion == IF routeQuery.region = "undefined" THEN "US" ELSE routeQuery.region

InitRoute ==
    /\ pc = "route"
    /\ routeQuery \in [query : RouteQueries, region : RouteRegions]
    /\ upstream = [kind |-> "none", error |-> NoError]
    /\ routeError = NoError
    /\ routeResponse = NoResponseSent
    /\ IdleExcept("route")

\* the two validations of the handler answer 400
RouteRejects ==
    /\ pc = "route"
    /\ \/ routeQuery.query = "undefined"
       \/ ToUpperCase(RouteRegion) \notin DOMAIN REGIONAL_ENDPOINTS
    /\ routeResponse' =
          IF routeQuery.query = "undefined"
          THEN Response(400, "Missing required parameter: query", "undefined", "validation")
          ELSE Response(400, "Invalid region", "undefined", "validation")
    /\ pc' = "routeAnswered"
    /\ UNCHANGED <<routeQuery, upstream, routeError, notRoute>>

\* await fetchSearchResults(query, endpoint, limit)
RouteFetches ==
    /\ pc = "route"
    /\ routeQuery.query # "undefined"
    /\ ToUpperCase(RouteRegion) \in DOMAIN REGIONAL_ENDPOINTS
    /\ pc' = "routeFetching"
    /\ UNCHANGED <<routeVars, notRoute>>

\* the request of fetchSearchResults settles: the handler answers with the products,
\* or fetchSearchResults throws the error that its catch makes of the failure
FetchSearchResults ==
    /\ pc = "routeFetching"
    /\ upstream' \in UpstreamOutcomes
    /\ IF upstream'.kind = "ok"
       THEN /\ routeResponse' = Response(200, "", "undefined", "success")
            /\ pc' = "routeAnswered"
            /\ UNCHANGED routeError
       ELSE /\ routeError' = TranslatedError(upstream'.error,
                                             REGIONAL_ENDPOINTS[ToUpperCase(RouteRegion)])
            /\ pc' = "routeFailed"
            /\ UNCHANGED routeResponse
    /\ UNCHANGED <<routeQuery, notRoute>>

\* catch (error) { handleSearchError(error, res, req) }
HandleSearchError ==
    /\ pc = "routeFailed"
    /\ routeResponse' = handleSearchError(routeError)
    /\ pc' = "routeAnswered"
    /\ UNCHANGED <<routeQuery, upstream, routeError, notRoute>>

NextRoute ==
    \/ RouteRejects
    \/ RouteFetches
    \/ FetchSearchResults
    \/ HandleSearchError

SpecRoute == InitRoute /\ [][NextRoute]_vars

----------------------------------------------------------------------------
(* The two entry points of the handler, getProductInfo and getProductByID:   *)
(* one call of either.                                                       *)

InitCore == InitSearch \/ InitById

NextCore == NextSearch \/ NextById

SpecCore == InitCore /\ [][NextCore]_vars

----------------------------------------------------------------------------
(* Properties *)

ScoreOf(r) == r.relevanceScore
Descending(list) ==
    \A i \in 1..Len(list) : \A j \in i..Len(list) : RatLe(ScoreOf(list[j]), ScoreOf(list[i]))
Occurrences(list, r) == Cardinality({i \in 1..Len(list) : list[i] = r})

(***************************************************************************)
(* C7: rankSearchResults returns in 'all' every product of its argument,   *)
(* each once and with its relevance score, in non-increasing score order;  *)
(* a product of 'all' that scores at least 20 is in baseGames and not in   *)
(* dlcAddons, one that scores less than 20 is in dlcAddons and not in      *)
(* baseGames, and both sublists are in non-increasing score order.         *)
(***************************************************************************)
C7_RankSortedAndPartitioned ==
    pc = "done" =>
        /\ Len(ranked.all) = Len(rankResults)
        /\ \A i \in 1..Len(rankResults) :
              Occurrences(ranked.all,
                  [index |-> rankResults[i].index, name |-> rankResults[i].name,
                   relevanceScore |-> calculateRelevanceScore(rankResults[i].name, rankQuery)]) = 1
        /\ Descending(ranked.all)
        /\ Descending(ranked.baseGames)
        /\ Descending(ranked.dlcAddons)
        /\ Len(ranked.baseGames) + Len(ranked.dlcAddons) = Len(ranked.all)
        /\ \A i \in 1..Len(ranked.all) :
              LET r == ranked.all[i]
              IN IF RatLe(RatInt(20), ScoreOf(r))
                 THEN Occurrences(ranked.baseGames, r) = 1 /\ Occurrences(ranked.dlcAddons, r) = 0
                 ELSE Occurrences(ranked.dlcAddons, r) = 1 /\ Occurrences(ranked.baseGames, r) = 0

\* a ranking of three products with a tie, one of them an add-on
C7_Witness ==
    /\ pc = "done"
    /\ Len(ranked.all) = 3
    /\ Len(ranked.dlcAddons) = 1
    /\ ScoreOf(ranked.all[1]) = ScoreOf(ranked.all[2])
    /\ rankResults[1].name = "DOOM Eternal Deluxe Edition DLC Pack"

(***************************************************************************)
(* C9: for the query "Doom", the product "DOOM (2016)" scores 100, which   *)
(* is the containment score 50 and the short-name bonus 10 with both the   *)
(* starts-with bonus 25 and the year bonus 15; "DOOM Eternal Deluxe        *)
(* Edition DLC Pack" scores less than 20, is returned in dlcAddons and not *)
(* in baseGames, and every "DOOM (2016)" is ranked before it in 'all'.     *)
(***************************************************************************)
C9_DoomScenario ==
    pc = "done" /\ rankQuery = "Doom" =>
        \A i \in 1..Len(ranked.all) :
            LET r == ranked.all[i]
            IN /\ r.name = "DOOM (2016)" =>
                     /\ ScoreOf(r) = RatInt(100)
                     /\ ScoreTerms(r.name, rankQuery).year = 15
                     /\ ScoreTerms(r.name, rankQuery).startsWith = 25
                     /\ Occurrences(ranked.baseGames, r) = 1
               /\ r.name = "DOOM Eternal Deluxe Edition DLC Pack" =>
                     /\ RatLt(ScoreOf(r), RatInt(20))
                     /\ Occurrences(ranked.dlcAddons, r) = 1
                     /\ Occurrences(ranked.baseGames, r) = 0
                     /\ \A j \in 1..Len(ranked.all) :
                           ranked.all[j].name = "DOOM (2016)" => j < i

\* the add-on pack comes first on the page and is ranked after "DOOM (2016)"
C9_Witness ==
    /\ pc = "done" /\ rankQuery = "Doom"
    /\ Len(rankResults) = 2
    /\ rankResults[1].name = "DOOM Eternal Deluxe Edition DLC Pack"
    /\ rankResults[2].name = "DOOM (2016)"
    /\ ranked.all[1].name = "DOOM (2016)"
    /\ Len(ranked.dlcAddons) = 1

(***************************************************************************)
(* C1: a call of getExchangeRates that has returned has returned a table   *)
(* with at least one rate; and when its refresh failed while the cache     *)
(* holds no rates, it has returned the hardcoded table of JPY, TRY, INR    *)
(* and EUR.                                                                *)
(***************************************************************************)
C1_NeverEmptyRates ==
    \A c \in Callers :
        rateCall[c].pc = "returned" =>
            /\ DOMAIN rateCall[c].result # {}
            /\ RefreshFails(rateCall[c].response) /\ DOMAIN exchangeRateCache.rates = {} =>
                  /\ rateCall[c].result = fallbackRates
                  /\ DOMAIN rateCall[c].result = {"JPY", "TRY", "INR", "EUR"}

\* both callers were refused by the rate service while nothing was cached
C1_Witness ==
    /\ \A c \in Callers :
          /\ rateCall[c].pc = "returned"
          /\ rateCall[c].response.kind \in {"error", "malformed"}
          /\ rateCall[c].result = fallbackRates
    /\ DOMAIN exchangeRateCache.rates = {}

\* caller c makes a call of fetchProductMetadata in this step
MetaCalled(c) == metaCall'[c].n = metaCall[c].n + 1
CalledKey(c) == cacheKey(metaCall'[c].productId, metaCall'[c].localeCode)

ValidPayload(p) == p.title # "" /\ p.price # "" /\ ~IsNaN(ParseFloat(p.price)) /\ p.productId # ""

(***************************************************************************)
(* C4: the match score of two identical product payloads that have a       *)
(* title, a valid price and a raw identifier is 1.                         *)
(***************************************************************************)
C4_IdenticalPayloadsScoreOne ==
    pc = "done" /\ product1 = product2 /\ ValidPayload(product1) => matchScore = RatInt(1)

(***************************************************************************)
(* C5: the match score of every pair of products is a number in [0, 1],    *)
(* and it is the sum of the weighted similarities of the criteria whose    *)
(* inputs are present, divided by the number of those criteria.            *)
(***************************************************************************)
C5_ScoreInUnitInterval ==
    pc = "done" =>
        /\ ~IsNaN(matchScore)
        /\ RatLe(RatInt(0), matchScore)
        /\ RatLe(matchScore, RatInt(1))
        /\ ~TitleIncluded(product1, product2) =>
              matchScore = calculateMatchScore([product1 EXCEPT !.title = ""],
                                               [product2 EXCEPT !.title = ""])
        /\ ~PriceIncluded(product1, product2) =>
              matchScore = calculateMatchScore([product1 EXCEPT !.price = ""],
                                               [product2 EXCEPT !.price = ""])
        /\ ~IdIncluded(product1, product2) =>
              matchScore = calculateMatchScore([product1 EXCEPT !.productId = ""],
                                               [product2 EXCEPT !.productId = ""])

InBucket(m, region) ==
    {b \in {"exact", "likely", "potential"} : \E i \in 1..Len(m[b]) : m[b][i].region = region}

EntriesOf(m, region) ==
    Cardinality({<<b, i>> \in {"exact", "likely", "potential"} \X (1..3) :
                    i <= Len(m[b]) /\ m[b][i].region = region})

\* the bucket the claim gives a score: >= 0.95 exact, >= 0.80 likely, >= 0.60 potential
ClaimedBucket(score) ==
    IF IsNaN(score) THEN {}
    ELSE IF 100 * score.n >= 95 * score.d THEN {"exact"}
    ELSE IF 100 * score.n >= 80 * score.d THEN {"likely"}
    ELSE IF 100 * score.n >= 60 * score.d THEN {"potential"}
    ELSE {}

(***************************************************************************)
(* C6: every candidate that a fetch returns is put, once, in the bucket of *)
(* its score (>= 0.95 exact, >= 0.80 likely, >= 0.60 potential) or, below  *)
(* 0.60, in no bucket, the other entries stay as they are, and the         *)
(* returned noMatch flag is true exactly when the three buckets are empty. *)
(***************************************************************************)
C6_BucketsAndNoMatch ==
    /\ [][pc = "matchFetch" /\ regionData' # {} =>
            \A data \in regionData' :
                LET region == targetRegions[regionIndex]
                    score == calculateMatchScore(productData, data)
                    entry == [region |-> region, data |-> data, confidence |-> score]
                IN /\ \A b \in {"exact", "likely", "potential"} :
                         matches'[b] = IF b \in ClaimedBucket(score)
                                       THEN Append(matches[b], entry) ELSE matches[b]
                   /\ InBucket(matches', region) = ClaimedBucket(score)
                   /\ EntriesOf(matches', region) <= 1]_vars
    /\ [](pc = "matchReturned" =>
            (matches.noMatch <=> matches.exact = <<>> /\ matches.likely = <<>>
                                 /\ matches.potential = <<>>))

C6_Witness ==
    /\ pc = "matchReturned"
    /\ matches.exact # <<>> /\ matches.likely # <<>> /\ matches.potential # <<>>
    /\ ~matches.noMatch

KeptListing(listing) == ~listing.broken /\ listing.name # "" /\ listing.price # ""
RecordsOf(arr, index) == Cardinality({k \in 1..Len(arr) : arr[k].index = index})

(***************************************************************************)
(* C3: getProductInfo returns from the batch of per-listing tasks only     *)
(* when every task has settled; while tasks settle, resultArr only grows;  *)
(* the search returns its error object only when no task was created; and  *)
(* once tasks were created it returns normally with one record for every   *)
(* listing that has a name and a price and whose extraction does not       *)
(* throw, whatever happens to the other listings of the page.              *)
(***************************************************************************)
C3_TasksSettleIndependently ==
    /\ [][pc = "searchTasks" /\ pc' = "searchReturned" =>
            \A i \in 1..Len(searchTask) : searchTask[i].pc = "settled"]_vars
    /\ [][pc = "searchTasks" =>
            /\ Len(resultArr') >= Len(resultArr)
            /\ SubSeq(resultArr', 1, Len(resultArr)) = resultArr]_vars
    /\ [](pc = "searchReturned" /\ returnObject.kind = "error" => searchTask = <<>>)
    /\ [](pc = "searchReturned" /\ searchTask # <<>> =>
            /\ returnObject.kind = "ok"
            /\ \A i \in 1..Len(searchPage) :
                  RecordsOf(resultArr, i - 1) = IF KeptListing(searchPage[i]) THEN 1 ELSE 0
            /\ returnObject.totalResults =
                  Cardinality({i \in 1..Len(searchPage) : KeptListing(searchPage[i])}))

\* a search has returned whose page held a listing whose extraction threw and a
\* listing whose enrichment threw, and the record of the latter is there
C3_Witness ==
    /\ pc = "searchReturned"
    /\ returnObject.kind = "ok"
    /\ \E i, j \in 1..Len(searchPage) :
          /\ searchPage[i].broken
          /\ searchTask[j].metadata.imageUrl = NotAString
          /\ RecordsOf(resultArr, j - 1) = 1

ResultScore(r) == calculateRelevanceScore(r.name, searchArgs.searchString)
ResultsDescending(list) ==
    \A i \in 1..Len(list) : \A j \in i..Len(list) : RatLe(ResultScore(list[j]), ResultScore(list[i]))

(***************************************************************************)
(* C8: when filterDLC is not given or true, the searchResults that         *)
(* getProductInfo returns is the list of the base products: the retained   *)
(* products that score at least 20, each once, in non-increasing score     *)
(* order; when filterDLC is false, searchResults is the list of all the    *)
(* retained products, each once, in non-increasing score order.            *)
(***************************************************************************)
C8_FilterDLCResults ==
    pc = "searchReturned" /\ returnObject.kind = "ok" =>
        LET list == returnObject.searchResults
            IsBase(r) == RatLe(RatInt(20), ResultScore(r))
        IN /\ ResultsDescending(list)
           /\ \A k \in 1..Len(resultArr) :
                 RecordsOf(list, resultArr[k].index) =
                     IF searchArgs.options.filterDLC = "false" \/ IsBase(resultArr[k])
                     THEN 1 ELSE 0
           /\ \A k \in 1..Len(list) : RecordsOf(resultArr, list[k].index) = 1

HasDigit(s) == \E i \in 1..Len(s) : CharAt(s, i) \in Digits
\* the formats of the claim: an amount with decimals in either convention, with or
\* without thousands groups, or digits alone; each with or without a currency symbol
CommonFormat(f) == f.frac # "" \/ f.groups = <<>>

(***************************************************************************)
(* C10: parsePrice returns the amount a price string denotes when the      *)
(* string is written with decimals in the dot-decimal or the comma-decimal *)
(* convention (with or without thousands groups and a currency symbol) or  *)
(* is a plain run of digits, and returns 0 for a string without any digit. *)
(***************************************************************************)
C10_ParsePriceCommonFormats ==
    pc = "done" =>
        /\ ~IsNaN(price)
        /\ \A f \in Formatted :
              CommonFormat(f) /\ priceString = Render(f) => RatEq(price, Amount(f))
        /\ ~HasDigit(priceString) => price = RatInt(0)

C10_Witness ==
    /\ pc = "done"
    /\ priceString = "1.234,56"
    /\ price = Rat(123456, 100)


----------------------------------------------------------------------------
\* the records of the object that getProductInfo returned
ReturnedRecords ==
    {returnObject.searchResults[k] : k \in 1..Len(returnObject.searchResults)}
        \cup {returnObject.baseGames[k] : k \in 1..Len(returnObject.baseGames)}
        \cup {returnObject.dlcAddons[k] : k \in 1..Len(returnObject.dlcAddons)}
\* the table holds a rate for the code: a key whose value is a number
HasRate(table, code) == code \in DOMAIN table /\ ~IsNaN(table[code])

(***************************************************************************)
(* C11: every record that getProductInfo returns has a rawPrice that is a  *)
(* number and is not negative, that is 0 when its price text holds no      *)
(* digit, and a priceInEur that is rawPrice times the record's             *)
(* exchangeRate, which is the rate that the table returned by              *)
(* getExchangeRates holds for the currency code of the region, or 1 when   *)
(* the table holds no rate for that code.                                  *)
(***************************************************************************)
C11_RecordPrices ==
    pc = "searchReturned" =>
        \A r \in ReturnedRecords :
            /\ ~IsNaN(r.rawPrice)
            /\ RatLe(RatInt(0), r.rawPrice)
            /\ ~HasDigit(r.price) => r.rawPrice = RatInt(0)
            /\ ~IsNaN(r.exchangeRate)
            /\ ~IsNaN(r.priceInEur)
            /\ RatEq(r.priceInEur, Rat(Norm(r.rawPrice).n * Norm(r.exchangeRate).n,
                                       Norm(r.rawPrice).d * Norm(r.exchangeRate).d))
            /\ r.currencyCode = CurrencyOf(searchArgs.region).name
            /\ r.exchangeRate = IF HasRate(exchangeRates, r.currencyCode)
                                THEN exchangeRates[r.currencyCode] ELSE RatInt(1)

\* a search in India has returned, after a rate payload without the rupee, a record
\* with a price of 59.99 at the rate 1 and a record whose price text is "N.A."
C11_Witness ==
    /\ pc = "searchReturned"
    /\ searchArgs.region = "IN"
    /\ ~HasRate(exchangeRates, "INR")
    /\ \E r, q \in ReturnedRecords :
          /\ r.rawPrice = Rat(5999, 100) /\ r.priceInEur = Rat(5999, 100)
          /\ q.price = "N.A." /\ q.rawPrice = RatInt(0)


(***************************************************************************)
(* C12: calculateStringSimilarity returns for (str1, str2) what it returns *)
(* for (str2, str1), returns 1 for a string and itself, and returns 1 for  *)
(* two empty strings.                                                      *)
(***************************************************************************)
C12_SimilaritySymmetric ==
    pc = "done" =>
        /\ similarity = calculateStringSimilarity(simArgs.str2, simArgs.str1)
        /\ simArgs.str1 = simArgs.str2 => similarity = RatInt(1)
        /\ simArgs.str1 = "" /\ simArgs.str2 = "" => similarity = RatInt(1)

\* the call has returned for two strings of different lengths that share a part
C12_Witness ==
    /\ pc = "done"
    /\ Len(simArgs.str1) < Len(simArgs.str2) /\ simArgs.str1 # ""
    /\ RatLt(RatInt(0), similarity) /\ RatLt(similarity, RatInt(1))


\* the listings of the page that yield a name and a price and whose extraction
\* does not throw, by their positions in the page, from 0
YieldingListings ==
    {i - 1 : i \in {k \in 1..Len(searchPage) :
                       /\ ~searchPage[k].broken
                       /\ searchPage[k].name # ""
                       /\ searchPage[k].price # ""}}

(***************************************************************************)
(* C13: a search whose page holds listings returns normally, and the       *)
(* records it returns are those of the listings that yield a name and a    *)
(* price and whose extraction does not throw: one record for each of them, *)
(* with the name of the listing, none for any other listing, and           *)
(* totalResults is their number.                                           *)
(***************************************************************************)
C13_DroppedListings ==
    pc = "searchReturned" /\ searchPage # <<>> /\ returnObject.kind # "error" =>
        /\ returnObject.kind = "ok"
        /\ {r.index : r \in ReturnedRecords} = YieldingListings
        /\ \A r \in ReturnedRecords : r.name = searchPage[r.index + 1].name
        /\ \A r, q \in ReturnedRecords : r.index = q.index => r.name = q.name
        /\ returnObject.totalResults = Cardinality(YieldingListings)

\* a search has returned one record for a page of a listing with a name and a price
\* and a listing with a name and without a price
C13_Witness ==
    /\ pc = "searchReturned"
    /\ returnObject.kind = "ok"
    /\ \E i, j \in 1..Len(searchPage) :
          /\ searchPage[i].name # "" /\ searchPage[i].price = ""
          /\ searchPage[j].name # "" /\ searchPage[j].price # ""
    /\ returnObject.totalResults = 1
    /\ Cardinality(ReturnedRecords) = 1


(***************************************************************************)
(* C14: neither getProductInfo nor getProductByID throws, for any query,   *)
(* product id and region they are called with: each call ends in an object *)
(* returned, and when the storefront request fails that object has an      *)
(* error field, and for getProductInfo empty result lists.                 *)
(***************************************************************************)
C14_NoFailureRaises ==
    /\ pc # "searchThrown"
    /\ pc = "searchReturned" =>
          /\ returnObject.kind \in {"ok", "empty", "error"}
          /\ returnObject.kind = "error" =>
                /\ returnObject.searchResults = <<>>
                /\ returnObject.baseGames = <<>>
                /\ returnObject.dlcAddons = <<>>
    /\ pc = "byIdReturned" => byIdReturn.kind \in {"metadata_api", "store_page", "error"}

\* the same for the regions that are strings
C14_StringRegionsNeverRaise ==
    /\ pc = "searchThrown" => ~IsString(searchArgs.region)
    /\ pc = "searchReturned" =>
          /\ returnObject.kind \in {"ok", "empty", "error"}
          /\ returnObject.kind = "error" =>
                /\ returnObject.searchResults = <<>>
                /\ returnObject.baseGames = <<>>
                /\ returnObject.dlcAddons = <<>>
    /\ pc = "byIdReturned" => byIdReturn.kind \in {"metadata_api", "store_page", "error"}


(***************************************************************************)
(* C15: when the upstream request of GET /search times out (ECONNABORTED), *)
(* the response is sent by the timeout branch of handleSearchError: status *)
(* 504 with retryable: true.                                               *)
(***************************************************************************)
C15_TimeoutIsRetryable ==
    pc = "routeAnswered" /\ upstream.kind = "error" /\ upstream.error.code = "ECONNABORTED" =>
        /\ routeResponse.branch = "timeout"
        /\ routeResponse.status = 504
        /\ routeResponse.retryable = "true"

\* what the code does with a timeout: the branch of the regional store answers 503
\* without a retryable field
C15_TimeoutAnsweredAsUnavailable ==
    pc = "routeAnswered" /\ upstream.kind = "error" /\ upstream.error.code = "ECONNABORTED" =>
        /\ routeResponse.branch = "regionalStore"
        /\ routeResponse.status = 503
        /\ routeResponse.retryable = "undefined"


\* caller c enters getExchangeRates in this step
RatesCalled(c) == rateCall[c].pc \in {"idle", "returned"} /\ rateCall'[c] # rateCall[c]
\* the cached table holds rates and is less than one hour old
FreshTable == DOMAIN exchangeRateCache.rates # {} /\ now - exchangeRateCache.timestamp < 60 * 60 * 1000

(***************************************************************************)
(* C16: a call of getExchangeRates returns the cached table at once, with  *)
(* no request, exactly when the table holds rates and its timestamp is     *)
(* less than one hour old, and otherwise it issues the request; the cache  *)
(* changes only when a request succeeds, and then its rates become the     *)
(* rates of that response and its timestamp the time of that call, in one  *)
(* step; so the cache has a timestamp exactly when it has rates.           *)
(***************************************************************************)
C16_CacheServedWhenFresh ==
    /\ [][\A c \in Callers : RatesCalled(c) =>
              /\ FreshTable <=> rateCall'[c].pc = "returned"
              /\ FreshTable => /\ rateCall'[c].result = exchangeRateCache.rates
                               /\ rateCall'[c].response = NoResponse
              /\ ~FreshTable => rateCall'[c].pc = "awaiting"
              /\ exchangeRateCache' = exchangeRateCache]_vars
    /\ [][exchangeRateCache' # exchangeRateCache =>
              \E c \in Callers :
                  /\ rateCall[c].pc = "awaiting" /\ rateCall'[c].pc = "returned"
                  /\ rateCall'[c].response.kind = "ok"
                  /\ exchangeRateCache'.timestamp = rateCall[c].now
                  /\ exchangeRateCache'.rates = rateCall'[c].result
                  /\ \A code \in DOMAIN rateCall'[c].response.rates \cap {"JPY", "TRY", "INR"} :
                        RatEq(exchangeRateCache'.rates[code],
                              Rat(rateCall'[c].response.rates[code].d,
                                  rateCall'[c].response.rates[code].n))]_vars
    /\ [][\A c \in Callers :
              rateCall[c].pc = "awaiting" /\ rateCall'[c].pc = "returned"
                  /\ rateCall'[c].response.kind = "ok" =>
                      /\ exchangeRateCache'.timestamp = rateCall[c].now
                      /\ exchangeRateCache'.rates = rateCall'[c].result]_vars
    /\ [](exchangeRateCache.timestamp = 0 <=> DOMAIN exchangeRateCache.rates = {})

\* a table that was an hour old has been replaced by a refresh, and a later call
\* has been served from the new table without a request
C16_Witness ==
    /\ exchangeRateCache.timestamp >= StartTime + 2 * Tick
    /\ DOMAIN exchangeRateCache.rates # {}
    /\ \E c, d \in Callers :
          /\ rateCall[c].pc = "returned" /\ rateCall[c].response.kind = "ok"
          /\ rateCall[c].now = StartTime
          /\ rateCall[d].pc = "returned" /\ rateCall[d].response = NoResponse
          /\ rateCall[d].now > exchangeRateCache.timestamp
          /\ rateCall[d].result = exchangeRateCache.rates


\* the table written in the catch block of getExchangeRates
HardcodedTable ==
    [code \in {"JPY", "TRY", "INR", "EUR"} |->
        CASE code = "JPY" -> Rat(623, 100000)
          [] code = "TRY" -> Rat(3105, 100000)
          [] code = "INR" -> Rat(950, 100000)
          [] OTHER        -> Rat(1, 1)]

(***************************************************************************)
(* C17: when the request of a call of getExchangeRates fails (an error, or *)
(* a payload without rates), the call returns the cached table if that     *)
(* holds rates, whatever its age, and the hardcoded table of JPY, TRY, INR *)
(* and EUR otherwise, and leaves the cached table and timestamp as they    *)
(* were.                                                                   *)
(***************************************************************************)
C17_FailedRefreshFallback ==
    [][\A c \in Callers :
          /\ rateCall[c].pc = "awaiting"
          /\ rateCall'[c].pc = "returned"
          /\ rateCall'[c].response.kind \in {"error", "malformed"}
          => /\ exchangeRateCache' = exchangeRateCache
             /\ rateCall'[c].result =
                   IF DOMAIN exchangeRateCache.rates # {}
                   THEN exchangeRateCache.rates
                   ELSE HardcodedTable]_vars

\* a call whose request failed has returned a cached table that was an hour old or
\* more when the call began
C17_Witness ==
    \E c \in Callers :
        /\ rateCall[c].pc = "returned"
        /\ rateCall[c].response.kind \in {"error", "malformed"}
        /\ DOMAIN exchangeRateCache.rates # {}
        /\ rateCall[c].result = exchangeRateCache.rates
        /\ rateCall[c].now - exchangeRateCache.timestamp >= CACHE_DURATION


\* the entry of key is in the cache and has not expired
LiveEntry(key) == key \in DOMAIN productCache /\ productCache[key].t >= now

(***************************************************************************)
(* C18: no step overwrites a live entry of the metadata cache: an entry    *)
(* that is in the cache and has not expired is there after the step, with  *)
(* the same metadata and the same expiry time, also when several calls of  *)
(* fetchProductMetadata for its key are in flight.                         *)
(***************************************************************************)
C18_NoUpdateInPlace ==
    [][\A key \in DOMAIN productCache :
          LiveEntry(key) =>
              /\ key \in DOMAIN productCache'
              /\ productCache'[key] = productCache[key]]_vars

\* what holds instead: a live entry is overwritten only by the late response of a call
\* for the same key that began before the entry was written
C18_OverwrittenOnlyByLateResponse ==
    [][\A key \in DOMAIN productCache :
          LiveEntry(key) /\ key \in DOMAIN productCache'
              /\ productCache'[key] # productCache[key] =>
                  \E c \in Callers :
                      /\ metaCall[c].pc = "awaiting"
                      /\ metaCall'[c].pc = "returned"
                      /\ cacheKey(metaCall[c].productId, metaCall[c].localeCode) = key
                      /\ productCache'[key].v = metaCall'[c].result]_vars


(***************************************************************************)
(* C19: two calls of fetchProductMetadata whose pairs of a product id and  *)
(* a locale of the region map differ work on different cache entries: the  *)
(* second does not find the entry that the first wrote, and writes its own *)
(* entry, which leaves the entry of the first as it was.                   *)
(***************************************************************************)
C19_LocaleScopedEntries ==
    pc = "keys" /\ keyCall[1].pc = "returned" /\ keyCall[2].pc = "returned"
        /\ keyCall[1].args # keyCall[2].args =>
            /\ keyCall[1].key # keyCall[2].key
            /\ ~keyCall[2].hit
            /\ DOMAIN productCache = {keyCall[1].key, keyCall[2].key}
            /\ productCache[keyCall[1].key].v.id = keyCall[1].args.productId
            /\ productCache[keyCall[2].key].v.id = keyCall[2].args.productId

\* two calls have returned for one product id that ends like a key, under two
\* locales, and the cache holds two entries
C19_Witness ==
    /\ pc = "keys"
    /\ keyCall[1].pc = "returned" /\ keyCall[2].pc = "returned"
    /\ keyCall[1].args.productId = "_en-be"
    /\ keyCall[2].args.productId = "_en-be"
    /\ keyCall[1].args.localeCode = "en-be" /\ keyCall[2].args.localeCode = "ja-jp"
    /\ Cardinality(DOMAIN productCache) = 2


(***************************************************************************)
(* C20: for a product that extractProductData produced for a region r of   *)
(* the target list, matchProductsCrossRegion issues no fetch for r and     *)
(* puts no entry for r in a bucket.                                        *)
(***************************************************************************)
C20_OwnRegionSkipped ==
    /\ [][\A r \in {"us", "eu", "jp"} :
              productData.region = ExtractedRegion(r) /\ pc = "matchLoop" /\ pc' = "matchFetch"
                  => targetRegions[regionIndex] # r]_vars
    /\ [](\A r \in {"us", "eu", "jp"} :
              productData.region = ExtractedRegion(r) => InBucket(matches, r) = {})

\* what holds instead: the region whose code is the region field of the product is
\* neither fetched nor put in a bucket
C20_RegionCodeSkipped ==
    /\ [][pc = "matchLoop" /\ pc' = "matchFetch" =>
              targetRegions[regionIndex] # productData.region]_vars
    /\ [](InBucket(matches, productData.region) = {})


\* the regions of the target list that the loop does not pass over, in list order
RegionsToFetch == SelectSeq(targetRegions, LAMBDA r : r # productData.region)
FetchedRegions == [i \in 1..Len(regionFetches) |-> regionFetches[i].region]
IsPrefix(a, b) == Len(a) <= Len(b) /\ SubSeq(b, 1, Len(a)) = a
AllSettled21(fetches) == \A i \in 1..Len(fetches) : ~fetches[i].pending
\* every settled fetch is bucketed: its region has the bucket of its candidate's score,
\* and no bucket when it gave null
AllBucketed(fetches, m) ==
    \A i \in 1..Len(fetches) :
        ~fetches[i].pending =>
            /\ fetches[i].data = {} => InBucket(m, fetches[i].region) = {}
            /\ \A d \in fetches[i].data :
                  InBucket(m, fetches[i].region)
                      = ClaimedBucket(calculateMatchScore(productData, d))

(***************************************************************************)
(* C21: matchProductsCrossRegion issues its fetches one at a time in the   *)
(* order of the target list: a fetch starts only when every earlier fetch  *)
(* has settled and its candidate has been put in its bucket.  A fetch that *)
(* fails gives no candidate for its region (the buckets stay as they are), *)
(* the regions after it are fetched all the same, and the call returns its *)
(* buckets and never raises.                                               *)
(***************************************************************************)
C21_SequentialFetches ==
    /\ [](IsPrefix(FetchedRegions, RegionsToFetch))
    /\ [](\A i \in 1..Len(regionFetches) - 1 : ~regionFetches[i].pending)
    /\ [][Len(regionFetches') > Len(regionFetches) =>
              /\ pc = "matchLoop"
              /\ AllSettled21(regionFetches)
              /\ AllBucketed(regionFetches, matches)]_vars
    /\ [][pc = "matchFetch" /\ regionData' = {} =>
              /\ matches' = matches
              /\ pc' = "matchLoop"
              /\ regionIndex' = regionIndex + 1]_vars
    /\ [](pc # "matchThrown")
    /\ [](pc = "matchReturned" =>
              /\ FetchedRegions = RegionsToFetch
              /\ AllSettled21(regionFetches)
              /\ AllBucketed(regionFetches, matches))

\* the fetch of the first region failed, the next region was fetched and its candidate
\* is in the exact bucket of the returned result
C21_Witness ==
    /\ pc = "matchReturned"
    /\ Len(regionFetches) >= 2
    /\ ~regionFetches[1].pending /\ regionFetches[1].data = {}
    /\ regionFetches[2].data # {}
    /\ InBucket(matches, regionFetches[2].region) = {"exact"}
    /\ InBucket(matches, regionFetches[1].region) = {}


\* the lexicons as the claim has them: sets, whatever the order of their members
AddOnMarkers == {dlcIndicators[i] : i \in 1..Len(dlcIndicators)}
EditionQualifiers == {editionIndicators[i] : i \in 1..Len(editionIndicators)}
\* word occurs in s with no letter, digit or underscore next to it on either side
WholeWord(s, word) ==
    \E i \in 1..Len(s) :
        /\ MatchAt(s, word, i)
        /\ ~IsWordAt(s, i - 1)
        /\ ~IsWordAt(s, i + Len(word))
\* four digits in parentheses, or 20 and two digits standing alone
YearToken(s) ==
    \E i \in 1..Len(s) :
        \/ /\ CharAt(s, i) = "(" /\ i + 5 <= Len(s) /\ CharAt(s, i + 5) = ")"
           /\ \A k \in (i + 1)..(i + 4) : CharAt(s, k) \in Digits
        \/ /\ i + 3 <= Len(s) /\ SubSeq(s, i, i + 1) = "20"
           /\ CharAt(s, i + 2) \in Digits /\ CharAt(s, i + 3) \in Digits
           /\ ~IsWordAt(s, i - 1) /\ ~IsWordAt(s, i + 4)
\* the sum the claim gives for a name and a query
ClaimedScore(productName, searchQuery) ==
    LET name == ToLowerCase(productName)
        query == ToLowerCase(searchQuery)
        words == SplitSpace(query)
        found == Cardinality({i \in 1..Len(words) : Includes(name, words[i])})
        base == IF name = query THEN RatInt(100)
                ELSE IF Includes(name, query) THEN RatInt(50)
                ELSE Rat(30 * found, Len(words))
        addOn == IF \E m \in AddOnMarkers : Includes(name, m) THEN -40 ELSE 0
        edition == IF \E q \in EditionQualifiers : Includes(name, q) THEN -20 ELSE 0
        game == IF WholeWord(name, "game") THEN 15 ELSE 0
        short == IF Len(productName) < 30 THEN 10 ELSE 0
        starts == IF StartsWith(name, query) THEN 25 ELSE 0
        year == IF YearToken(name) THEN 15 ELSE 0
    IN RatAdd(base, RatInt(addOn + edition + game + short + starts + year))

(***************************************************************************)
(* C22: for a name and a query that are present, calculateRelevanceScore   *)
(* returns the sum of one base term (100 for equality without regard to    *)
(* case, else 50 for containment, else 30 times the share of the query's   *)
(* words found in the name), -40 once if any add-on marker occurs, -20     *)
(* once if any edition qualifier occurs, whatever the add-on penalty, and  *)
(* the bonuses 15 (whole word game), 10 (name shorter than 30 characters), *)
(* 25 (name starts with the query) and 15 (a year of four digits).         *)
(***************************************************************************)
C22_ScoreIsSumOfTerms ==
    pc = "done" /\ relevanceArgs.productName # "" /\ relevanceArgs.searchQuery # "" =>
        RatEq(relevanceScore,
              ClaimedScore(relevanceArgs.productName, relevanceArgs.searchQuery))

\* a name with two add-on markers and an edition qualifier, of 30 characters or more,
\* scored for a query of which it has three words of four: 22.5 - 40 - 20
C22_Witness ==
    /\ pc = "done"
    /\ relevanceArgs.productName = "DOOM Eternal Deluxe Edition DLC Pack"
    /\ relevanceArgs.searchQuery = "Doom Eternal Quake Pack"
    /\ RatEq(relevanceScore, Rat(-75, 2))


IsInteger(x) == ~IsNaN(x) /\ Norm(x).d = 1
\* the words of the query and how many of them the name has
QueryWords(searchQuery) == SplitSpace(ToLowerCase(searchQuery))
WordsFound(productName, searchQuery) ==
    Cardinality({i \in 1..Len(QueryWords(searchQuery)) :
                    Includes(ToLowerCase(productName), QueryWords(searchQuery)[i])})

Separators == {",", "."}
LastSeparator(s) ==
    IF \E i \in 1..Len(s) : CharAt(s, i) \in Separators
    THEN CHOOSE i \in 1..Len(s) :
             CharAt(s, i) \in Separators /\ \A j \in (i + 1)..Len(s) : CharAt(s, j) \notin Separators
    ELSE 0
\* the number the claim gives a price string that has a digit
ClaimedPrice(s) ==
    LET cleaned == Filter(s, PriceChars)
        last == LastSeparator(cleaned)
        after == SubSeq(cleaned, last + 1, Len(cleaned))
    IN IF last > 0 /\ Len(after) <= 2
       THEN Rat(DigitsValue(Filter(cleaned, Digits)), Pow10(Len(after)))
       ELSE RatInt(DigitsValue(Filter(cleaned, Digits)))

(***************************************************************************)
(* C24: parsePrice takes the rightmost of the last comma and the last dot  *)
(* for the decimal separator when at most 2 digits follow it, and strips   *)
(* commas and dots alike as thousands separators otherwise: "1,234" and    *)
(* "1.234" both give 1234.                                                 *)
(***************************************************************************)
C24_RightmostSeparatorRule ==
    pc = "done" /\ HasDigit(priceString) => RatEq(price, ClaimedPrice(priceString))

\* what holds instead: the rule as claimed when the rightmost separator is a comma
\* with at most 2 digits after it or with no dot before it; a string whose rightmost
\* separator is a dot is read by parseFloat with its dots in place, so that its first
\* dot is the decimal point however many digits follow
C24_DotAlwaysDecimal ==
    pc = "done" /\ HasDigit(priceString) =>
        LET cleaned == Filter(priceString, PriceChars)
        IN /\ (LastIndexOf(cleaned, ",") > LastIndexOf(cleaned, ".")
               /\ (Len(cleaned) - LastIndexOf(cleaned, ",") - 1 <= 2
                      \/ LastIndexOf(cleaned, ".") = -1))
                => RatEq(price, ClaimedPrice(priceString))
           /\ LastIndexOf(cleaned, ".") > LastIndexOf(cleaned, ",")
                => RatEq(price, ParseFloat(RemoveAll(cleaned, ",")))
           /\ priceString = "1,234" => price = RatInt(1234)
           /\ priceString = "1.234" => RatEq(price, Rat(1234, 1000))


(***************************************************************************)
(* C25: the timestamp of exchangeRateCache never decreases: whatever the   *)
(* order in which the refreshes of concurrent getExchangeRates calls       *)
(* complete, every write stores a timestamp at least as great as the one   *)
(* it replaces.                                                            *)
(***************************************************************************)
C25_TimestampNeverDecreases ==
    [][exchangeRateCache'.timestamp >= exchangeRateCache.timestamp]_vars

\* what holds instead: every write stores the time at which the writing call started,
\* which is never later than the time of the write
C25_TimestampIsCallStart ==
    /\ [][exchangeRateCache' # exchangeRateCache =>
              \E c \in Callers :
                  /\ rateCall[c].pc = "awaiting" /\ rateCall'[c].pc = "returned"
                  /\ exchangeRateCache'.timestamp = rateCall[c].now
                  /\ exchangeRateCache'.rates = rateCall'[c].result]_vars
    /\ [](exchangeRateCache.timestamp <= now)


\* the records of the settled tasks in listing order, first those pushed before any
\* await (no product id), then those pushed after their metadata fetch: resultArr as
\* it is when the fetches complete in the order of the listings
RECURSIVE RecordsInListingOrder(_, _, _)
RecordsInListingOrder(tasks, i, afterFetch) ==
    IF i > Len(tasks) THEN <<>>
    ELSE (IF tasks[i].outcome = "pushed" /\ (tasks[i].obj.productId # "") = afterFetch
          THEN <<tasks[i].obj>> ELSE <<>>)
         \o RecordsInListingOrder(tasks, i + 1, afterFetch)
ReferenceArr ==
    RecordsInListingOrder(searchTask, 1, FALSE) \o RecordsInListingOrder(searchTask, 1, TRUE)
SameRecords(a, b) ==
    /\ Len(a) = Len(b)
    /\ \A k \in 1..Len(a) : RecordsOf(b, a[k].index) = 1 /\ \E j \in 1..Len(b) : b[j] = a[k]

(***************************************************************************)
(* C26: the order of the records that getProductInfo returns depends on    *)
(* the page and on the upstream responses alone: searchResults, sorted or  *)
(* not, is the sequence that the same listings and the same metadata       *)
(* responses give when the fetches complete in listing order, whatever the *)
(* order in which they did complete, and records of equal score are in     *)
(* listing-index order.                                                    *)
(***************************************************************************)
C26_OrderIndependentOfCompletion ==
    pc = "searchReturned" /\ returnObject.kind = "ok" =>
        LET list == returnObject.searchResults
        IN /\ list = ReturnObject(searchArgs, ReferenceArr, exchangeRate,
                                  productCache).searchResults
           /\ OptionOn(searchArgs.options.sortByRelevance) =>
                 \A i \in 1..Len(list) : \A j \in (i + 1)..Len(list) :
                     RatEq(ResultScore(list[i]), ResultScore(list[j]))
                         => list[i].index < list[j].index

\* what holds instead: the records are those of the listing-order run, each once, in
\* the order of resultArr, which is the order in which the tasks pushed them; sorting
\* keeps that order among records of equal score
C26_SameRecordsInCompletionOrder ==
    pc = "searchReturned" /\ returnObject.kind = "ok" =>
        LET list == returnObject.searchResults
            reference == ReturnObject(searchArgs, ReferenceArr, exchangeRate,
                                      productCache).searchResults
            Position(r) == CHOOSE k \in 1..Len(resultArr) : resultArr[k].index = r.index
        IN /\ SameRecords(list, reference)
           /\ SameRecords(resultArr, ReferenceArr)
           /\ ~OptionOn(searchArgs.options.sortByRelevance) => list = resultArr
           /\ \A i \in 1..Len(list) : \A j \in (i + 1)..Len(list) :
                 RatEq(ResultScore(list[i]), ResultScore(list[j]))
                     => Position(list[i]) < Position(list[j])

=============================================================================
